---- MODULE Spec2Model ----
(***************************************************************************)
(* The ranked-list positioning system of the movie-ranking backend:        *)
(* the user_rankings table, the Postgres functions                         *)
(* rebalance_tier_positions / insert_ranking_between, the RankingMath      *)
(* helpers and the ranking service (list, create, move, delete); and the   *)
(* follows table with create_follow / delete_follow of the social service. *)
(*                                                                         *)
(* Numbers.                                                                *)
(*  - visual_score is numeric(3,1); a score is kept as an integer number   *)
(*    of tenths (9.5 is 95).  The raw average of two scores has two        *)
(*    fractional digits and is kept in hundredths (9.25 is 925).           *)
(*  - rank_position is a double.  Every position the program produces is   *)
(*    1000 times a dyadic rational, and a position is kept exactly as      *)
(*      c * (1000 / 2^PosBits)  +  f * (1000 / 2^40)                       *)
(*    (record [c, f]).  1000/2^40 = 9.0949e-10 is the first gap below the  *)
(*    1e-9 threshold that bisecting a gap of 1000 produces.  Sums and      *)
(*    halves of such values are exact in binary64 and in 28-digit decimal  *)
(*    arithmetic as long as they stay on this grid; an operation whose     *)
(*    midpoint leaves the grid is outside the model (OnGrid).              *)
(***************************************************************************)
EXTENDS Integers, Sequences, FiniteSets, TLC

VARIABLES user_rankings, follows, id_seq, now, last, listed, sessions, pure

vars == <<user_rankings, follows, id_seq, now, last, listed, sessions, pure>>

\* ---------------------------------------------------------------- bounds
MaxUsers == 2
MaxMedia == 3
MaxRankings == 4
MaxOps == 1
PosBits == 1

Users == 1..MaxUsers
Media == 1..MaxMedia
RankingIds == 1..MaxRankings

\* Python None / SQL NULL for an optional ranking id.
None == 0
\* SQL NULL in the notes column, and the notes a caller may send.
NULL_NOTES == "<null>"
NotesInputs == {NULL_NOTES, "rewatch"}

\* ---------------------------------------------------------------- tiers
Tiers == {"S", "A", "B", "C", "D"}

\* TIER_SCORE_RANGES, in tenths: (min, max) per tier.
TIER_SCORE_RANGES(tier) ==
    CASE tier = "S" -> <<90, 100>>
      [] tier = "A" -> <<80, 89>>
      [] tier = "B" -> <<70, 79>>
      [] tier = "C" -> <<60, 69>>
      [] tier = "D" -> <<0, 59>>

\* The CASE of insert_ranking_between that loads v_min_score, v_max_score.
SqlTierBounds(p_tier) ==
    <<CASE p_tier = "S" -> 90 [] p_tier = "A" -> 80 [] p_tier = "B" -> 70
        [] p_tier = "C" -> 60 [] OTHER -> 0,
      CASE p_tier = "S" -> 100 [] p_tier = "A" -> 89 [] p_tier = "B" -> 79
        [] p_tier = "C" -> 69 [] OTHER -> 59>>

\* chk_visual_score_by_tier and chk_visual_score_0_10.
chk_visual_score_by_tier(tier, score) ==
    /\ score >= 0 /\ score <= 100
    /\ \/ tier = "S" /\ score >= 90 /\ score <= 100
       \/ tier = "A" /\ score >= 80 /\ score <= 89
       \/ tier = "B" /\ score >= 70 /\ score <= 79
       \/ tier = "C" /\ score >= 60 /\ score <= 69
       \/ tier = "D" /\ score >= 0 /\ score <= 59

\* Variant: the tiers sorted by their names.
tier_sort_alphabetical(tier) ==
    CASE tier = "A" -> 1 [] tier = "B" -> 2 [] tier = "C" -> 3
      [] tier = "D" -> 4 [] tier = "S" -> 5 [] OTHER -> 6

\* tier_sort_case: S=1, A=2, B=3, C=4, D=5, else 6.
tier_sort_case(tier) ==
    CASE tier = "S" -> 1 [] tier = "A" -> 2 [] tier = "B" -> 3
      [] tier = "C" -> 4 [] tier = "D" -> 5 [] OTHER -> 6

\* ------------------------------------------------------------ positions
CoarsePerStep == 2 ^ PosBits

Pos(c, f) == [c |-> c, f |-> f]
PosAdd(a, b) == [c |-> a.c + b.c, f |-> a.f + b.f]
PosSub(a, b) == [c |-> a.c - b.c, f |-> a.f - b.f]
PosLess(a, b) == a.c < b.c \/ (a.c = b.c /\ a.f < b.f)

\* DEFAULT_START_POSITION = 1000.0, APPEND_STEP = 1000.0
DEFAULT_START_POSITION == Pos(CoarsePerStep, 0)
APPEND_STEP == Pos(CoarsePerStep, 0)

\* gap < REBALANCE_THRESHOLD (1e-9), for a gap > 0:
\* f * 1000 / 2^40 < 1e-9  <=>  f * 10^12 < 2^40  <=>  f * 5^12 < 2^28.
BelowThreshold(gap) ==
    /\ gap.c = 0
    /\ gap.f < 8
    /\ gap.f * 244140625 < 268435456

\* (a + b) / 2 is on the grid.
OnGrid(a, b) == (a.c + b.c) % 2 = 0 /\ (a.f + b.f) % 2 = 0
Midpoint(a, b) == [c |-> (a.c + b.c) \div 2, f |-> (a.f + b.f) \div 2]

\* An optional value: <<>> is None, <<x>> is x.
Some(x) == <<x>>
Nothing == <<>>

\* ------------------------------------------------------- RankingMath
\* RankingMath.calculate_position(prev_rank, next_rank).  The result is
\* [exc, msg, pos, ongrid]: exc = "" when a position is returned.
NoPos == Pos(0, 0)
MathOk(pos) == [exc |-> "", msg |-> "", pos |-> pos, ongrid |-> TRUE]
MathRaise(msg) == [exc |-> "ValueError", msg |-> msg, pos |-> NoPos, ongrid |-> TRUE]

\* Variant: with only next present the step is added instead of subtracted.
calculate_position_prepend_below(prev_rank, next_rank) ==
    IF prev_rank = Nothing /\ next_rank = Nothing
    THEN MathOk(DEFAULT_START_POSITION)
    ELSE IF prev_rank = Nothing
    THEN MathOk(PosAdd(next_rank[1], APPEND_STEP))
    ELSE IF next_rank = Nothing
    THEN MathOk(PosAdd(prev_rank[1], APPEND_STEP))
    ELSE IF ~PosLess(prev_rank[1], next_rank[1])
    THEN MathRaise("prev_rank must be less than next_rank")
    ELSE IF BelowThreshold(PosSub(next_rank[1], prev_rank[1]))
    THEN MathRaise("Gap too small")
    ELSE [exc |-> "", msg |-> "", pos |-> Midpoint(prev_rank[1], next_rank[1]),
          ongrid |-> OnGrid(prev_rank[1], next_rank[1])]

\* Variant: between two neighbours the position of prev is returned.
calculate_position_at_prev(prev_rank, next_rank) ==
    IF prev_rank = Nothing /\ next_rank = Nothing
    THEN MathOk(DEFAULT_START_POSITION)
    ELSE IF prev_rank = Nothing
    THEN MathOk(PosSub(next_rank[1], APPEND_STEP))
    ELSE IF next_rank = Nothing
    THEN MathOk(PosAdd(prev_rank[1], APPEND_STEP))
    ELSE IF ~PosLess(prev_rank[1], next_rank[1])
    THEN MathRaise("prev_rank must be less than next_rank")
    ELSE IF BelowThreshold(PosSub(next_rank[1], prev_rank[1]))
    THEN MathRaise("Gap too small")
    ELSE MathOk(prev_rank[1])

\* Variant: the midpoint is returned whatever the gap.
calculate_position_any_gap(prev_rank, next_rank) ==
    IF prev_rank = Nothing /\ next_rank = Nothing
    THEN MathOk(DEFAULT_START_POSITION)
    ELSE IF prev_rank = Nothing
    THEN MathOk(PosSub(next_rank[1], APPEND_STEP))
    ELSE IF next_rank = Nothing
    THEN MathOk(PosAdd(prev_rank[1], APPEND_STEP))
    ELSE IF ~PosLess(prev_rank[1], next_rank[1])
    THEN MathRaise("prev_rank must be less than next_rank")
    ELSE [exc |-> "", msg |-> "", pos |-> Midpoint(prev_rank[1], next_rank[1]),
          ongrid |-> OnGrid(prev_rank[1], next_rank[1])]

calculate_position(prev_rank, next_rank) ==
    IF prev_rank = Nothing /\ next_rank = Nothing
    THEN MathOk(DEFAULT_START_POSITION)
    ELSE IF prev_rank = Nothing
    THEN MathOk(PosSub(next_rank[1], APPEND_STEP))
    ELSE IF next_rank = Nothing
    THEN MathOk(PosAdd(prev_rank[1], APPEND_STEP))
    ELSE LET prev_d == prev_rank[1]
             next_d == next_rank[1]
             gap == PosSub(next_d, prev_d)
         IN IF ~PosLess(prev_d, next_d)
            THEN MathRaise("prev_rank must be less than next_rank")
            ELSE IF BelowThreshold(gap)
            THEN MathRaise("Gap too small")
            ELSE [exc |-> "", msg |-> "", pos |-> Midpoint(prev_d, next_d),
                  ongrid |-> OnGrid(prev_d, next_d)]

\* RankingMath.needs_rebalance(prev_rank, next_rank): gap < REBALANCE_THRESHOLD
\* (a gap of zero or less is below it).
needs_rebalance(prev_rank, next_rank) ==
    \/ ~PosLess(prev_rank, next_rank)
    \/ BelowThreshold(PosSub(next_rank, prev_rank))

\* round(Decimal, 1): Decimal.__round__ rounds half to even.  The argument is
\* in hundredths (>= 0), the result in tenths.
PyRound1(h) ==
    LET q == h \div 10
        r == h % 10
    IN IF r < 5 THEN q
       ELSE IF r > 5 THEN q + 1
       ELSE IF q % 2 = 0 THEN q ELSE q + 1

\* Variant: the second fractional digit is cut off.
SqlTruncate1(h) == h \div 10

\* Postgres round(numeric, 1): rounds half away from zero (h >= 0).
SqlRound1(h) == (h + 5) \div 10

Min(a, b) == IF a < b THEN a ELSE b
Max(a, b) == IF a > b THEN a ELSE b

\* Variant: the average is rounded without being clamped to the tier's band.
interpolate_score_unclamped(tier, prev_score, next_score) ==
    LET tier_min == TIER_SCORE_RANGES(tier)[1]
        tier_max == TIER_SCORE_RANGES(tier)[2]
    IN PyRound1(IF prev_score = Nothing /\ next_score = Nothing
                THEN ((tier_min + tier_max) * 10) \div 2
                ELSE IF prev_score = Nothing
                THEN ((tier_max + next_score[1]) * 10) \div 2
                ELSE IF next_score = Nothing
                THEN ((prev_score[1] + tier_min) * 10) \div 2
                ELSE ((prev_score[1] + next_score[1]) * 10) \div 2)

\* RankingMath.interpolate_score(tier, prev_score, next_score): scores in
\* tenths, raw and clamped in hundredths.
interpolate_score(tier, prev_score, next_score) ==
    LET tier_min == TIER_SCORE_RANGES(tier)[1]
        tier_max == TIER_SCORE_RANGES(tier)[2]
        raw == IF prev_score = Nothing /\ next_score = Nothing
               THEN ((tier_min + tier_max) * 10) \div 2
               ELSE IF prev_score = Nothing
               THEN ((tier_max + next_score[1]) * 10) \div 2
               ELSE IF next_score = Nothing
               THEN ((prev_score[1] + tier_min) * 10) \div 2
               ELSE ((prev_score[1] + next_score[1]) * 10) \div 2
        clamped == Max(tier_min * 10, Min(tier_max * 10, raw))
    IN PyRound1(clamped)

\* ------------------------------------------------------------ the table
\* A row of user_rankings.
Row(id, user_id, media_item_id, tier, rank_position, visual_score, notes, created_at, updated_at) ==
    [id |-> id, user_id |-> user_id, media_item_id |-> media_item_id,
     tier |-> tier, rank_position |-> rank_position,
     visual_score |-> visual_score, notes |-> notes,
     created_at |-> created_at, updated_at |-> updated_at]

\* The rows of one (user, tier) partition.
Partition(tbl, user_id, tier) ==
    {r \in tbl : r.user_id = user_id /\ r.tier = tier}

\* uq_user_media: another row of the same user and media item exists.
uq_user_media_violated(tbl, row) ==
    \E r \in tbl : r.id # row.id /\ r.user_id = row.user_id
                   /\ r.media_item_id = row.media_item_id

\* Variant: the table without its uq_user_tier_rank_position index.
uq_user_tier_rank_position_absent(tbl, row) == FALSE

\* uq_user_tier_rank_position: another row of the same user and tier has
\* the same rank_position.
uq_user_tier_rank_position_violated(tbl, row) ==
    \E r \in tbl : r.id # row.id /\ r.user_id = row.user_id
                   /\ r.tier = row.tier
                   /\ r.rank_position = row.rank_position

\* The element of a one-element set: The({e : x \in {v}}) is e with x
\* standing for the value of v.
The(S) == CHOOSE x \in S : TRUE

\* SELECT * INTO v FROM user_rankings WHERE id = ..
SelectById(tbl, id) == CHOOSE r \in tbl : r.id = id

\* --------------------------------------------- rebalance_tier_positions
\* Variant: row_number() OVER (ORDER BY rank_position DESC, id DESC).
RowNumberDescending(part, r) ==
    Cardinality({q \in part :
        \/ PosLess(r.rank_position, q.rank_position)
        \/ (q.rank_position = r.rank_position /\ q.id >= r.id)})

\* row_number() OVER (ORDER BY rank_position, id) of row r in its partition.
RowNumber(part, r) ==
    Cardinality({q \in part :
        \/ PosLess(q.rank_position, r.rank_position)
        \/ (q.rank_position = r.rank_position /\ q.id <= r.id)})

\* Variant: the rebalance leaves every row where it is.
NewPosUnchanged(part, r) == r.rank_position

\* new_pos = row_number * 1000.0
NewPos(part, r) == Pos(RowNumber(part, r) * CoarsePerStep, 0)

\* The orders in which the single UPDATE may visit the rows of a partition:
\* the statement fixes none.
UpdateOrders(part) ==
    LET ids == {r.id : r \in part}
        n == Cardinality(ids)
    IN {o \in [1..n -> ids] : \A i, j \in 1..n : i # j => o[i] # o[j]}

\* rebalance_tier_positions(p_user_id, p_tier) with its UPDATE visiting the
\* rows in `order`.  The CTE `ordered` (id -> new_pos) is computed from the
\* statement's snapshot `snap`; the UPDATE joins it to the table by id alone
\* (WHERE ur.id = o.id), so it rewrites the rows of tbl, the table as it is
\* when the rows are written, whose id the snapshot's partition holds.  The
\* unique index is checked as each row is written, against the table as the
\* rows visited before it have left it: a row whose new position is still
\* held by a row not yet rewritten raises unique_violation.
\* Result: [ok, table].
rebalance_tier_positions(tbl, snap, p_user_id, p_tier, order, ts) ==
    The({The({LET Rewritten(r) ==
                      [r EXCEPT !.rank_position = NewPos(part, SelectById(part, r.id)),
                                !.updated_at = ts]
                  \* the table when the i-th row of the order is written
                  Before(i) == {IF r \in targets /\ \E k \in 1..(i - 1) : order[k] = r.id
                                THEN Rewritten(r) ELSE r : r \in tbl}
                  ok == \A i \in 1..Len(order) :
                           \A r \in {q \in targets : q.id = order[i]} :
                              ~uq_user_tier_rank_position_violated(Before(i), Rewritten(r))
              IN [ok |-> ok,
                  table |-> IF ok THEN (tbl \ targets) \cup {Rewritten(r) : r \in targets}
                            ELSE tbl]
                : targets \in {{r \in tbl : \E q \in part : q.id = r.id}}})
           : part \in {Partition(snap, p_user_id, p_tier)}})

\* ----------------------------------------------- insert_ranking_between
\* The result of a database call or service function:
\*   exc    "" or the exception raised
\*   msg    which raise statement or constraint it was
\*   table  user_rankings as the call leaves it inside its transaction
\*   id     the id of the row inserted or updated (None if none)
\*   rebalanced  rebalance_tier_positions ran to completion
\*   ongrid      the position computed is on the model's grid
Raised(exc, msg, tbl) ==
    [exc |-> exc, msg |-> msg, table |-> tbl, id |-> None,
     rebalanced |-> FALSE, ongrid |-> TRUE]

\* SELECT * INTO v FROM user_rankings WHERE id = .. AND user_id = .. AND tier = ..
SelectNeighbor(tbl, id, p_user_id, p_tier) ==
    {r \in tbl : r.id = id /\ r.user_id = p_user_id /\ r.tier = p_tier}

\* A record variable nothing was selected into (its fields are never read).
NoRow == [id |-> None]

\* Variant: the function without its test of the neighbours' order.
SqlOrderUnchecked(v_prev, v_next) == FALSE

\* IF v_prev.rank_position >= v_next.rank_position THEN RAISE EXCEPTION
SqlOrderViolated(v_prev, v_next) ==
    ~PosLess(v_prev.rank_position, v_next.rank_position)

\* The end of insert_ranking_between, from v_new_rank on: the position and
\* score for the neighbours read, and the INSERT, which meets the CHECK
\* constraints and then the unique indexes in the order they were created
\* (uq_user_media before uq_user_tier_rank_position).  tbl is the table at
\* the call, tbl2 the table the INSERT meets.
InsertComputed(tbl, tbl2, p_user_id, p_media_item_id, p_tier, has_prev, has_next, v_prev, v_next, rebalanced, new_id, ts) ==
    LET v_min_score == SqlTierBounds(p_tier)[1]
        v_max_score == SqlTierBounds(p_tier)[2]
        v_new_rank ==
            IF has_prev /\ has_next
            THEN Midpoint(v_prev.rank_position, v_next.rank_position)
            ELSE IF has_prev THEN PosAdd(v_prev.rank_position, Pos(CoarsePerStep, 0))
            ELSE IF has_next THEN PosSub(v_next.rank_position, Pos(CoarsePerStep, 0))
            ELSE Pos(CoarsePerStep, 0)
        ongrid == (has_prev /\ has_next)
                    => OnGrid(v_prev.rank_position, v_next.rank_position)
        v_raw_score ==
            IF has_prev /\ has_next
            THEN ((v_prev.visual_score + v_next.visual_score) * 10) \div 2
            ELSE IF has_prev THEN ((v_prev.visual_score + v_min_score) * 10) \div 2
            ELSE IF has_next THEN ((v_max_score + v_next.visual_score) * 10) \div 2
            ELSE ((v_min_score + v_max_score) * 10) \div 2
        clamped == Min(v_max_score * 10, Max(v_min_score * 10, v_raw_score))
    IN The({IF ~chk_visual_score_by_tier(v_inserted.tier, v_inserted.visual_score)
            THEN Raised("IntegrityError", "chk_visual_score_by_tier", tbl)
            ELSE IF uq_user_media_violated(tbl2, v_inserted)
            THEN Raised("IntegrityError", "uq_user_media", tbl)
            ELSE IF uq_user_tier_rank_position_violated(tbl2, v_inserted)
            THEN Raised("IntegrityError", "uq_user_tier_rank_position", tbl)
            ELSE [exc |-> "", msg |-> "", table |-> tbl2 \cup {v_inserted},
                  id |-> new_id, rebalanced |-> rebalanced, ongrid |-> ongrid]
              : v_inserted \in {Row(new_id, p_user_id, p_media_item_id, p_tier,
                                    v_new_rank, SqlRound1(clamped), NULL_NOTES,
                                    ts, ts)}})

\* insert_ranking_between(p_user_id, p_media_item_id, p_tier,
\* p_prev_ranking_id, p_next_ranking_id).  `order` is the order in which a
\* rebalance, if one runs, rewrites the rows and snap the table as that
\* statement's snapshot has it (tbl itself when no other transaction
\* commits meanwhile); new_id is the value gen_random_uuid() returns, ts the
\* value of now().
insert_ranking_between(tbl, snap, p_user_id, p_media_item_id, p_tier, p_prev_ranking_id, p_next_ranking_id, order, new_id, ts) ==
    LET has_prev == p_prev_ranking_id # None
        has_next == p_next_ranking_id # None
    IN
    IF has_prev /\ has_next /\ p_prev_ranking_id = p_next_ranking_id
    THEN Raised("RaiseException", "prev and next ranking ids must be different", tbl)
    ELSE
    The({IF has_prev /\ prevs = {}
         THEN Raised("RaiseException", "prev ranking not found for user/tier", tbl)
         ELSE IF has_next /\ nexts = {}
         THEN Raised("RaiseException", "next ranking not found for user/tier", tbl)
         ELSE IF has_prev /\ has_next /\ SqlOrderViolated(The(prevs), The(nexts))
         THEN Raised("RaiseException", "prev.rank_position must be < next.rank_position", tbl)
         ELSE IF has_prev /\ has_next
                 /\ BelowThreshold(PosSub(The(nexts).rank_position,
                                          The(prevs).rank_position))
         THEN \* PERFORM rebalance_tier_positions, then both neighbours re-read
              The({IF ~reb.ok
                   THEN Raised("IntegrityError", "uq_user_tier_rank_position", tbl)
                   ELSE The({InsertComputed(tbl, reb.table, p_user_id, p_media_item_id,
                                            p_tier, TRUE, TRUE, v_prev, v_next, TRUE,
                                            new_id, ts)
                               : v_prev \in {SelectById(reb.table, p_prev_ranking_id)},
                                 v_next \in {SelectById(reb.table, p_next_ranking_id)}})
                     : reb \in {rebalance_tier_positions(tbl, snap, p_user_id, p_tier,
                                                         order, ts)}})
         ELSE The({InsertComputed(tbl, tbl, p_user_id, p_media_item_id, p_tier,
                                  has_prev, has_next, v_prev, v_next, FALSE,
                                  new_id, ts)
                     : v_prev \in {IF has_prev THEN The(prevs) ELSE NoRow},
                       v_next \in {IF has_next THEN The(nexts) ELSE NoRow}})
           : prevs \in {SelectNeighbor(tbl, p_prev_ranking_id, p_user_id, p_tier)},
             nexts \in {SelectNeighbor(tbl, p_next_ranking_id, p_user_id, p_tier)}})

\* ------------------------------------------------------- create_ranking
\* create_ranking(db, user_id, payload): the call of insert_ranking_between,
\* the mapping of its failures (each after db.rollback()), the notes UPDATE
\* and the commit.  The table of the result is the committed table.
create_ranking(tbl, snap, user_id, media_id, tier, prev_ranking_id, next_ranking_id, notes, order, new_id, ts) ==
    The({IF r.exc = "IntegrityError"
         THEN IF r.msg = "uq_user_media"
              THEN Raised("DuplicateRankingError", r.msg, tbl)
              ELSE Raised("IntegrityError", r.msg, tbl)
         ELSE IF r.exc # ""
         THEN Raised("ValueError", r.msg, tbl)
         ELSE IF notes # NULL_NOTES /\ notes # ""
         THEN [r EXCEPT !.table =
                 {IF row.id = r.id
                  THEN [row EXCEPT !.notes = notes, !.updated_at = ts]
                  ELSE row : row \in r.table}]
         ELSE r
           : r \in {insert_ranking_between(tbl, snap, user_id, media_id, tier,
                        prev_ranking_id, next_ranking_id, order, new_id, ts)}})

\* --------------------------------------------------- _validate_neighbors
\* q = db.query(UserRanking).filter(id == ranking_id, user_id == user_id):
\* the rows the query of _fetch matches.
FetchQuery(tbl, ranking_id, user_id) ==
    {r \in tbl : r.id = ranking_id /\ r.user_id = user_id}

\* What _fetch returns or raises: [exc, msg, row].
FetchOk(row) == [exc |-> "", msg |-> "", row |-> Some(row)]
FetchRaise(msg) == [exc |-> "ValueError", msg |-> msg, row |-> Nothing]

\* Variant: a neighbour of any tier is accepted.
_fetch_any_tier(tbl, user_id, tier, exclude_ranking_id, ranking_id, label) ==
    The({IF found = {}
         THEN FetchRaise(label \o " ranking not found for this user")
         ELSE IF exclude_ranking_id # None /\ The(found).id = exclude_ranking_id
         THEN FetchRaise(label \o " ranking cannot be the same as the ranking being moved")
         ELSE FetchOk(The(found))
           : found \in {FetchQuery(tbl, ranking_id, user_id)}})

\* Variant: the ranking being moved is accepted as its own neighbour.
_fetch_no_exclude(tbl, user_id, tier, exclude_ranking_id, ranking_id, label) ==
    The({IF found = {}
         THEN FetchRaise(label \o " ranking not found for this user")
         ELSE IF The(found).tier # tier
         THEN FetchRaise(label \o " ranking is in another tier")
         ELSE FetchOk(The(found))
           : found \in {FetchQuery(tbl, ranking_id, user_id)}})

\* _fetch(ranking_id, label), with the variables of _validate_neighbors it
\* closes over.
_fetch(tbl, user_id, tier, exclude_ranking_id, ranking_id, label) ==
    The({IF found = {}
         THEN FetchRaise(label \o " ranking not found for this user")
         ELSE IF The(found).tier # tier
         THEN FetchRaise(label \o " ranking is in another tier")
         ELSE IF exclude_ranking_id # None /\ The(found).id = exclude_ranking_id
         THEN FetchRaise(label \o " ranking cannot be the same as the ranking being moved")
         ELSE FetchOk(The(found))
           : found \in {FetchQuery(tbl, ranking_id, user_id)}})

\* _validate_neighbors(db, user_id, tier, prev_id, next_id, exclude_ranking_id):
\* [exc, msg, prev_row, next_row], the rows optional.
_validate_neighbors(tbl, user_id, tier, prev_id, next_id, exclude_ranking_id) ==
    The({IF p.exc # ""
         THEN [exc |-> p.exc, msg |-> p.msg, prev_row |-> Nothing, next_row |-> Nothing]
         ELSE The({IF n.exc # ""
                   THEN [exc |-> n.exc, msg |-> n.msg,
                         prev_row |-> Nothing, next_row |-> Nothing]
                   ELSE IF p.row # Nothing /\ n.row # Nothing
                           /\ ~PosLess(p.row[1].rank_position, n.row[1].rank_position)
                   THEN [exc |-> "ValueError",
                         msg |-> "prev must have a lower rank_position than next",
                         prev_row |-> Nothing, next_row |-> Nothing]
                   ELSE [exc |-> "", msg |-> "", prev_row |-> p.row, next_row |-> n.row]
                     : n \in {IF next_id # None
                              THEN _fetch(tbl, user_id, tier, exclude_ranking_id,
                                          next_id, "next")
                              ELSE [exc |-> "", msg |-> "", row |-> Nothing]}})
           : p \in {IF prev_id # None
                    THEN _fetch(tbl, user_id, tier, exclude_ranking_id, prev_id, "prev")
                    ELSE [exc |-> "", msg |-> "", row |-> Nothing]}})

\* ------------------------------------------- _compute_position_and_score
OptRank(row) == IF row = Nothing THEN Nothing ELSE Some(row[1].rank_position)
OptScore(row) == IF row = Nothing THEN Nothing ELSE Some(row[1].visual_score)
\* db.refresh(row): the row read again by its primary key.
Refresh(tbl, row) == IF row = Nothing THEN Nothing ELSE Some(SelectById(tbl, row[1].id))

\* What _compute_position_and_score returns or raises:
\* [exc, msg, table, new_position, new_score, rebalanced, ongrid].
ComputeRaise(exc, msg, tbl) ==
    [exc |-> exc, msg |-> msg, table |-> tbl, new_position |-> NoPos,
     new_score |-> 0, rebalanced |-> FALSE, ongrid |-> TRUE]

\* The position and score for the neighbours as read: calculate_position
\* and, when it returns, interpolate_score.
PositionAndScore(tbl, tier, prev_row, next_row, rebalanced) ==
    The({IF math.exc # ""
         THEN ComputeRaise(math.exc, math.msg, tbl)
         ELSE [exc |-> "", msg |-> "", table |-> tbl, new_position |-> math.pos,
               new_score |-> interpolate_score(tier, OptScore(prev_row),
                                               OptScore(next_row)),
               rebalanced |-> rebalanced, ongrid |-> math.ongrid]
           : math \in {calculate_position(OptRank(prev_row), OptRank(next_row))}})

\* _compute_position_and_score(db, user_id, tier, prev_row, next_row): on a
\* ValueError of calculate_position the partition is rebalanced, the
\* neighbours are refreshed and the calculation runs once more.
_compute_position_and_score(tbl, snap, user_id, tier, prev_row, next_row, order, ts) ==
    The({IF first.exc = ""
         THEN first
         ELSE The({IF ~reb.ok
                   THEN ComputeRaise("IntegrityError", "uq_user_tier_rank_position", tbl)
                   ELSE The({IF second.exc # ""
                             THEN ComputeRaise(second.exc, second.msg, tbl)
                             ELSE second
                               : second \in {PositionAndScore(reb.table, tier,
                                               Refresh(reb.table, prev_row),
                                               Refresh(reb.table, next_row), TRUE)}})
                     : reb \in {rebalance_tier_positions(tbl, snap, user_id, tier, order, ts)}})
           : first \in {PositionAndScore(tbl, tier, prev_row, next_row, FALSE)}})

\* --------------------------------------------------------- move_ranking
\* Variant: the flush leaves visual_score as it was.
FlushRankingKeepsScore(loaded, current, tier, new_position, new_score, ts) ==
    [current EXCEPT !.tier = tier, !.rank_position = new_position, !.updated_at = ts]

\* Variant: the flush writes the whole row afresh, notes included.
FlushRankingClearsNotes(loaded, current, tier, new_position, new_score, ts) ==
    [current EXCEPT !.tier = tier, !.rank_position = new_position,
                    !.visual_score = new_score, !.notes = NULL_NOTES,
                    !.updated_at = ts]

\* The flush of the three attribute assignments.  The unit of work writes an
\* attribute only when the value assigned differs from the value the object
\* was loaded with; `loaded` is the row as move_ranking read it, `current`
\* the row as the database holds it at the flush.  visual_score is loaded as
\* a Decimal and assigned as a float: the two compare equal only when the
\* tenth is exactly a binary fraction (.0 or .5).
FlushRanking(loaded, current, tier, new_position, new_score, ts) ==
    LET tier_dirty == tier # loaded.tier
        pos_dirty == new_position # loaded.rank_position
        score_dirty == ~(new_score = loaded.visual_score /\ new_score % 5 = 0)
    IN IF ~(tier_dirty \/ pos_dirty \/ score_dirty) THEN current
       ELSE [current EXCEPT
               !.tier = IF tier_dirty THEN tier ELSE @,
               !.rank_position = IF pos_dirty THEN new_position ELSE @,
               !.visual_score = IF score_dirty THEN new_score ELSE @,
               !.updated_at = ts]

\* Variant: the ranking is looked up by its id alone.
LockRankingAnyUser(tbl, ranking_id, user_id) ==
    {r \in tbl : r.id = ranking_id}

\* db.query(UserRanking).filter(id == ranking_id, user_id == user_id)
\*   .with_for_update().first(): the rows it matches.
LockRanking(tbl, ranking_id, user_id) ==
    {r \in tbl : r.id = ranking_id /\ r.user_id = user_id}

\* The end of move_ranking: the three assignments, db.flush() (the UPDATE
\* meets the CHECK constraints and the unique index) and db.commit().
\* `ranking` is the row as loaded, c what _compute_position_and_score
\* returned.
FlushAndCommit(tbl, ranking, tier, c, ts) ==
    The({IF ~chk_visual_score_by_tier(updated.tier, updated.visual_score)
         THEN Raised("IntegrityError", "chk_visual_score_by_tier", tbl)
         ELSE IF uq_user_tier_rank_position_violated(c.table, updated)
         THEN Raised("IntegrityError", "uq_user_tier_rank_position", tbl)
         ELSE [exc |-> "", msg |-> "",
               table |-> {IF r.id = ranking.id THEN updated ELSE r : r \in c.table},
               id |-> ranking.id, rebalanced |-> c.rebalanced, ongrid |-> c.ongrid]
           : updated \in {FlushRanking(ranking, SelectById(c.table, ranking.id), tier,
                                       c.new_position, c.new_score, ts)}})

\* move_ranking(db, user_id, ranking_id, payload).  The table of the result
\* is the committed table (the table unchanged when the call raises).
move_ranking(tbl, snap, user_id, ranking_id, tier, prev_ranking_id, next_ranking_id, order, ts) ==
    The({IF found = {}
         THEN Raised("RankingNotFoundError", "Ranking not found", tbl)
         ELSE The({IF v.exc # ""
                   THEN Raised(v.exc, v.msg, tbl)
                   ELSE The({IF c.exc # ""
                             THEN Raised(c.exc, c.msg, tbl)
                             ELSE FlushAndCommit(tbl, ranking, tier, c, ts)
                               : c \in {_compute_position_and_score(tbl, snap, user_id, tier,
                                           v.prev_row, v.next_row, order, ts)},
                                 ranking \in found})
                     : v \in {_validate_neighbors(tbl, user_id, tier, prev_ranking_id,
                                                  next_ranking_id, ranking_id)}})
           : found \in {LockRanking(tbl, ranking_id, user_id)}})

\* ------------------------------------------------------- delete_ranking
\* Variant: the DELETE without its user_id filter.
delete_ranking_any_user(tbl, user_id, ranking_id) ==
    LET matched == {r \in tbl : r.id = ranking_id}
        count == Cardinality(matched)
    IN [table |-> tbl \ matched, deleted |-> count > 0]

\* delete_ranking(db, user_id, ranking_id): [table, deleted].
delete_ranking(tbl, user_id, ranking_id) ==
    LET matched == {r \in tbl : r.id = ranking_id /\ r.user_id = user_id}
        count == Cardinality(matched)
    IN [table |-> tbl \ matched, deleted |-> count > 0]

\* -------------------------------------------------------- list_rankings
\* ORDER BY tier_sort_case(), rank_position ASC
OrderedBefore(a, b) ==
    \/ tier_sort_case(a.tier) < tier_sort_case(b.tier)
    \/ /\ tier_sort_case(a.tier) = tier_sort_case(b.tier)
       /\ PosLess(a.rank_position, b.rank_position)

RECURSIVE OrderBy(_)
OrderBy(rows) ==
    IF rows = {} THEN <<>>
    ELSE LET first == CHOOSE r \in rows : \A q \in rows : ~OrderedBefore(q, r)
         IN <<first>> \o OrderBy(rows \ {first})

\* list_rankings(db, user_id, tier=...): the rows of the user (of one tier
\* when the filter is given), ordered.  tier_filter is optional.
list_rankings(tbl, user_id, tier_filter) ==
    LET query == {r \in tbl : r.user_id = user_id}
        filtered == IF tier_filter = Nothing THEN query
                    ELSE {r \in query : r.tier = tier_filter[1]}
    IN OrderBy(filtered)

\* ------------------------------------------------------- the state machine
\* user_rankings  the committed table
\* follows        the committed follows table
\* id_seq         the next id gen_random_uuid() hands out (ids are never reused)
\* now            the clock: the number of create, move and delete calls so far
\* last           the last call that finished: its arguments, the value of
\*                now() in its transaction, and what it returned or raised
\* listed         what the last list_rankings call returned
\* sessions       the transaction each database session has open, if any
\* pure           a call of a pure function run on its own: its arguments
\*                and, once it has run, its result

NoCall ==
    [op |-> "none", user_id |-> None, ranking_id |-> None, media_id |-> None,
     tier |-> "", prev_id |-> None, next_id |-> None, exc |-> "", msg |-> "",
     id |-> None, rebalanced |-> FALSE, deleted |-> FALSE, ts |-> 0]

\* No call of a pure function is under way (pure is used only when the
\* functions are run on their own, see the end of the model).
NoMath == [fn |-> "none", done |-> TRUE]

\* A session with no transaction open.  With one open:
\*   pc      the statement the transaction runs next
\*   call    the call that opened it (op, arguments, ts)
\*   notes   the notes the call sent
\*   locked  the ids of the rows it holds a row lock on
\*   writes  the row versions it has written and not yet committed
Idle ==
    [pc |-> "idle", call |-> NoCall, notes |-> NULL_NOTES, locked |-> {},
     writes |-> {}, snap |-> {}]

\* The database sessions: two requests are served at a time.
Sessions == {1, 2}

\* Tables the program reaches.  User 1 ranks media 1 (no neighbour), media 2
\* (prev = ranking 1) and media 3 (prev = ranking 2) in tier S, sets notes on
\* ranking 1, then moves rankings 3 and 2 in turn between ranking 1 and the
\* other one, forty times: each move halves the gap, and the last leaves
\* ranking 2 at 1000 + 1000/2^40 and ranking 3 at 1000 + 2000/2^40, with the
\* scores 9.5, 9.4, 9.4 (ThreeTight).  Deleting ranking 3 gives TwoTight.
\* Their timestamps are 0: set before the calls the model counts.
ThreeTight ==
    {Row(1, 1, 1, "S", Pos(CoarsePerStep, 0), 95, "rewatch", 0, 0),
     Row(2, 1, 2, "S", Pos(CoarsePerStep, 1), 94, NULL_NOTES, 0, 0),
     Row(3, 1, 3, "S", Pos(CoarsePerStep, 2), 94, NULL_NOTES, 0, 0)}

TwoTight == {r \in ThreeTight : r.id # 3}

InitialTables == {{}, TwoTight, ThreeTight}

Init ==
    /\ user_rankings \in InitialTables
    /\ id_seq = IF user_rankings = {} THEN 1 ELSE 4
    /\ now = 0
    /\ last = NoCall
    /\ listed = <<>>
    /\ sessions = [s \in Sessions |-> Idle]
    /\ pure = NoMath
    /\ follows = {}

\* A call that changed nothing (it raised, or it deleted or listed only) ends
\* the run explored: what can follow it is what can follow the state before it.
Changed(call) ==
    \/ call.op = "none"
    \/ call.op \in {"create", "move"} /\ call.exc = ""
    \/ call.op = "delete" /\ call.deleted

\* The orders a rebalance triggered by this call may take (only a call that
\* names both neighbours can trigger one).
OrdersFor(user_id, tier, prev_id, next_id) ==
    IF prev_id # None /\ next_id # None
    THEN UpdateOrders(Partition(user_rankings, user_id, tier))
    ELSE {<<>>}

CreateRanking(user_id, media_id, tier, prev_id, next_id, notes) ==
    /\ \E order \in OrdersFor(user_id, tier, prev_id, next_id) :
         \E r \in {create_ranking(user_rankings, user_rankings, user_id, media_id, tier,
                                 prev_id,
                                 next_id, notes, order, id_seq, now + 1)} :
            /\ r.ongrid
            /\ r.exc = "" => id_seq <= MaxRankings
            /\ user_rankings' = r.table
            /\ id_seq' = IF r.exc = "" THEN id_seq + 1 ELSE id_seq
            /\ last' = [NoCall EXCEPT !.op = "create", !.user_id = user_id,
                          !.media_id = media_id, !.tier = tier, !.prev_id = prev_id,
                          !.next_id = next_id, !.exc = r.exc, !.msg = r.msg,
                          !.id = r.id, !.rebalanced = r.rebalanced,
                          !.ts = now + 1]
    /\ now' = now + 1
    /\ listed' = <<>>
    /\ UNCHANGED <<follows, sessions, pure>>

MoveRanking(user_id, ranking_id, tier, prev_id, next_id) ==
    /\ \E order \in OrdersFor(user_id, tier, prev_id, next_id) :
         \E r \in {move_ranking(user_rankings, user_rankings, user_id, ranking_id, tier,
                               prev_id,
                               next_id, order, now + 1)} :
            /\ r.ongrid
            /\ user_rankings' = r.table
            /\ last' = [NoCall EXCEPT !.op = "move", !.user_id = user_id,
                          !.ranking_id = ranking_id, !.tier = tier,
                          !.prev_id = prev_id, !.next_id = next_id, !.exc = r.exc,
                          !.msg = r.msg, !.id = r.id, !.rebalanced = r.rebalanced,
                          !.ts = now + 1]
    /\ now' = now + 1
    /\ UNCHANGED <<follows, id_seq, sessions, pure>>
    /\ listed' = <<>>

DeleteRanking(user_id, ranking_id) ==
    /\ LET r == delete_ranking(user_rankings, user_id, ranking_id)
       IN /\ user_rankings' = r.table
          /\ last' = [NoCall EXCEPT !.op = "delete", !.user_id = user_id,
                        !.ranking_id = ranking_id, !.deleted = r.deleted,
                        !.ts = now + 1]
    /\ now' = now + 1
    /\ UNCHANGED <<follows, id_seq, sessions, pure>>
    /\ listed' = <<>>

ListRankings(user_id) ==
    /\ listed' = list_rankings(user_rankings, user_id, Nothing)
    /\ last' = [NoCall EXCEPT !.op = "list", !.user_id = user_id]
    /\ UNCHANGED <<follows, user_rankings, id_seq, now, sessions, pure>>

OptIds == RankingIds \cup {None}

\* MaxOps bounds the create, move and delete calls of a run.
MayCall == Changed(last) /\ now < MaxOps

Next ==
    \/ /\ MayCall
       /\ \E u \in Users, m \in Media, t \in Tiers, p \in OptIds, n \in OptIds,
             notes \in NotesInputs : CreateRanking(u, m, t, p, n, notes)
    \/ /\ MayCall
       /\ \E u \in Users, id \in RankingIds, t \in Tiers, p \in OptIds, n \in OptIds :
             MoveRanking(u, id, t, p, n)
    \/ /\ MayCall
       /\ \E u \in Users, id \in RankingIds : DeleteRanking(u, id)
    \/ /\ Changed(last)
       /\ \E u \in Users : ListRankings(u)

Spec == Init /\ [][Next]_vars

\* ------------------------------------------------ concurrent transactions
\* The same calls as transactions of several database sessions, interleaved
\* statement by statement at READ COMMITTED (the engine sets no isolation
\* level):
\*  - a statement reads the committed rows and the transaction's own writes;
\*  - SELECT .. FOR UPDATE and UPDATE take the row's lock and wait while
\*    another transaction holds it, then read the row as it is by then;
\*  - a write whose key of a unique index equals a key another open
\*    transaction has written or is replacing waits for that transaction;
\*  - two transactions waiting for each other: one is the deadlock victim.
\*  - a statement sees the rows committed when it starts; an UPDATE that
\*    waited for a row's lock then writes the row as it is by then.
\* A transaction runs: the locking reads of the moved row and the neighbours,
\* one statement each; when it rebalances, the start of that statement (its
\* snapshot); the writes (rebalance, INSERT or flushed UPDATE, notes) as one
\* step; the commit.  Any failure rolls the transaction back.
MaxTxns == 2

\* The inputs of the concurrent calls.
ConcTiers == {"S", "A"}
ConcMedia == {1, MaxMedia + 1}
ConcNeighborIds == {None, 1, 2}
ConcRankingIds == {1, 2, 3}

\* Variant: statements read the rows other open transactions have written.
ViewUncommitted(s) ==
    LET w == UNION {sessions[t].writes : t \in Sessions}
    IN {r \in user_rankings : \A x \in w : x.id # r.id} \cup w

\* What the statements of session s read.
View(s) ==
    LET w == sessions[s].writes
    IN {r \in user_rankings : \A x \in w : x.id # r.id} \cup w

WrittenIds(t) == {x.id : x \in sessions[t].writes}

\* The rows no other open transaction is replacing.
StableView(s) ==
    {r \in View(s) : \A t \in Sessions \ {s} : r.id \notin WrittenIds(t)}

\* The row versions an open transaction has written, and the committed
\* versions they replace: the index entries whose fate is not yet known.
PendingRows(t) ==
    sessions[t].writes \cup {x \in user_rankings : x.id \in WrittenIds(t)}

\* (next - prev) < 1e-9 / gap < REBALANCE_THRESHOLD for two neighbours in
\* order: the call is about to rebalance its partition.
GapExhausted(tbl, call) ==
    /\ call.prev_id # None
    /\ call.next_id # None
    /\ \E p, n \in tbl :
          /\ p.id = call.prev_id
          /\ n.id = call.next_id
          /\ PosLess(p.rank_position, n.rank_position)
          /\ BelowThreshold(PosSub(n.rank_position, p.rank_position))

\* The rows the locking read of a neighbour matches: insert_ranking_between
\* filters by id, user and tier, _fetch by id and user.
NeighborQuery(tbl, call, id) ==
    IF call.op = "create"
    THEN SelectNeighbor(tbl, id, call.user_id, call.tier)
    ELSE FetchQuery(tbl, id, call.user_id)

\* Variant: every locking read locks all the rows of the caller.
RowsToLockAllOfUser(s) ==
    IF sessions[s].pc \in {"lock_ranking", "lock_prev", "lock_next", "rebalance"}
    THEN {r.id : r \in {q \in View(s) : q.user_id = sessions[s].call.user_id}}
    ELSE {}

\* The ids of the rows the next statement of session s locks.
RowsToLock(s) ==
    LET t == sessions[s]
        rows == CASE t.pc = "lock_ranking" ->
                       LockRanking(View(s), t.call.ranking_id, t.call.user_id)
                  [] t.pc = "lock_prev" -> NeighborQuery(View(s), t.call, t.call.prev_id)
                  [] t.pc = "lock_next" -> NeighborQuery(View(s), t.call, t.call.next_id)
                  [] t.pc = "rebalance" ->
                       {r \in View(s) : \E q \in t.snap : q.id = r.id}
                  [] OTHER -> {}
    IN {r.id : r \in rows}

\* Variant: a locking read never waits for another transaction.
LockWaitNever(s) == {}

\* The sessions holding a row lock the next statement of s needs.
LockWait(s) ==
    {t \in Sessions \ {s} : sessions[t].locked \cap RowsToLock(s) # {}}

\* What the writes of the call of session s do, rebalancing in `order`.
WriteResult(s, order) ==
    LET t == sessions[s]
    IN CHOOSE r \in
         {IF t.call.op = "create"
          THEN create_ranking(tbl, snap, t.call.user_id, t.call.media_id, t.call.tier,
                              t.call.prev_id, t.call.next_id, t.notes, order,
                              id_seq, t.call.ts)
          ELSE move_ranking(tbl, snap, t.call.user_id, t.call.ranking_id, t.call.tier,
                            t.call.prev_id, t.call.next_id, order, t.call.ts)
            : tbl \in {StableView(s)},
              snap \in {IF t.pc = "rebalance" THEN t.snap ELSE StableView(s)}} : TRUE

\* The sessions with a pending index entry equal to a key the rows w write.
UniqueWait(s, w) ==
    {t \in Sessions \ {s} :
        \E n \in w, x \in PendingRows(t) :
            /\ x.id # n.id
            /\ x.user_id = n.user_id
            /\ \/ x.media_item_id = n.media_item_id
               \/ x.tier = n.tier /\ x.rank_position = n.rank_position}

\* The orders a rebalance by the write step of s may take.
WriteOrders(s) ==
    IF sessions[s].pc = "rebalance"
    THEN UpdateOrders(sessions[s].snap)
    ELSE {<<>>}

\* The sessions the write step of s waits for: the holders of the locks its
\* rebalance needs, otherwise the owners of the index entries it runs into.
WriteWait(s, order) ==
    IF LockWait(s) # {} THEN LockWait(s)
    ELSE UNION {IF r.exc = "" THEN UniqueWait(s, r.table \ StableView(s)) ELSE {}
                  : r \in {WriteResult(s, order)}}

\* The sessions s waits for at its next statement.
WaitsFor(s) ==
    IF sessions[s].pc \in {"write", "rebalance"}
    THEN UNION {WriteWait(s, order) : order \in WriteOrders(s)}
    ELSE LockWait(s)

\* Variant: the database without its deadlock detector.
DeadlockedNever(s) == FALSE

\* s and another session wait for each other (with two sessions every cycle
\* of waits is such a pair).
Deadlocked(s) == \E t \in WaitsFor(s) : s \in WaitsFor(t)

\* The statement after the locking read of the moved row, and after that of
\* prev: a neighbour that was not named is not read.
AfterRanking(call) ==
    IF call.prev_id # None THEN "lock_prev"
    ELSE IF call.next_id # None THEN "lock_next" ELSE "write"

AfterPrev(call) == IF call.next_id # None THEN "lock_next" ELSE "write"

\* The call of session s ends without a commit: rollback, and the failure
\* goes to the caller.
Fail(s, exc, msg) ==
    /\ sessions' = [sessions EXCEPT ![s] = Idle]
    /\ last' = [sessions[s].call EXCEPT !.exc = exc, !.msg = msg]
    /\ listed' = <<>>
    /\ UNCHANGED <<follows, user_rankings, id_seq, now, pure>>

\* The statement of session s took its locks and the transaction goes on.
Proceed(s, pc) ==
    /\ sessions' = [sessions EXCEPT ![s].pc = pc,
                                    ![s].locked = @ \cup RowsToLock(s)]
    /\ UNCHANGED <<follows, user_rankings, id_seq, now, last, listed, pure>>

\* A session opens a transaction only when the sessions before it have one
\* open (which of two idle sessions serves a call makes no difference).
MayBeginUpTo(s, max_txns) ==
    /\ sessions[s].pc = "idle"
    /\ now < max_txns
    /\ \A t \in Sessions : t < s => sessions[t].pc # "idle"

MayBegin(s) == MayBeginUpTo(s, MaxTxns)

BeginCreate(s, user_id, media_id, tier, prev_id, next_id, notes) ==
    /\ sessions' = [sessions EXCEPT ![s] =
          [Idle EXCEPT !.pc = AfterRanking([prev_id |-> prev_id, next_id |-> next_id]),
                       !.notes = notes,
                       !.call = [NoCall EXCEPT !.op = "create", !.user_id = user_id,
                                   !.media_id = media_id, !.tier = tier,
                                   !.prev_id = prev_id, !.next_id = next_id,
                                   !.ts = now + 1]]]
    /\ now' = now + 1
    /\ UNCHANGED <<follows, user_rankings, id_seq, last, listed, pure>>

BeginMove(s, user_id, ranking_id, tier, prev_id, next_id) ==
    /\ sessions' = [sessions EXCEPT ![s] =
          [Idle EXCEPT !.pc = "lock_ranking",
                       !.call = [NoCall EXCEPT !.op = "move", !.user_id = user_id,
                                   !.ranking_id = ranking_id, !.tier = tier,
                                   !.prev_id = prev_id, !.next_id = next_id,
                                   !.ts = now + 1]]]
    /\ now' = now + 1
    /\ UNCHANGED <<follows, user_rankings, id_seq, last, listed, pure>>

\* move_ranking: SELECT the ranking FOR UPDATE.
LockRankingStep(s) ==
    LET call == sessions[s].call
    IN IF LockRanking(View(s), call.ranking_id, call.user_id) = {}
       THEN Fail(s, "RankingNotFoundError", "Ranking not found")
       ELSE LockWait(s) = {} /\ Proceed(s, AfterRanking(call))

\* The locking read of a neighbour.  insert_ranking_between first compares
\* the two ids, and finds no row unless user and tier match; _fetch locks the
\* row it finds and then looks at its tier and its id.
LockNeighborStep(s, label) ==
    LET call == sessions[s].call
        id == IF label = "prev" THEN call.prev_id ELSE call.next_id
        pc == IF label = "prev" THEN AfterPrev(call) ELSE "write"
    IN IF call.op = "create"
       THEN IF call.prev_id = call.next_id
            THEN Fail(s, "ValueError", "prev and next ranking ids must be different")
            ELSE IF NeighborQuery(View(s), call, id) = {}
            THEN Fail(s, "ValueError", label \o " ranking not found for user/tier")
            ELSE LockWait(s) = {} /\ Proceed(s, pc)
       ELSE LET f == _fetch(View(s), call.user_id, call.tier, call.ranking_id, id, label)
            IN IF NeighborQuery(View(s), call, id) = {}
               THEN Fail(s, f.exc, f.msg)
               ELSE /\ LockWait(s) = {}
                    /\ IF f.exc # "" THEN Fail(s, f.exc, f.msg) ELSE Proceed(s, pc)

LockPrevStep(s) == LockNeighborStep(s, "prev")

LockNextStep(s) == LockNeighborStep(s, "next")

\* The statement that rebalances starts: PERFORM rebalance_tier_positions in
\* insert_ranking_between, db.execute(SELECT rebalance_tier_positions) in
\* _compute_position_and_score.  Its snapshot is taken now; the rows are
\* written once their locks are free.
RebalanceBeginStep(s) ==
    /\ GapExhausted(View(s), sessions[s].call)
    /\ sessions' = [sessions EXCEPT
          ![s].pc = "rebalance",
          ![s].snap = Partition(View(s), sessions[s].call.user_id,
                                sessions[s].call.tier)]
    /\ UNCHANGED <<follows, user_rankings, id_seq, now, last, listed, pure>>

\* The writes of the call: the rest of insert_ranking_between and the notes
\* UPDATE, or the rest of move_ranking up to the flush.
WriteStepUpTo(s, max_rankings) ==
    \E order \in WriteOrders(s) :
        /\ sessions[s].pc = "write" => ~GapExhausted(View(s), sessions[s].call)
        /\ WriteWait(s, order) = {}
        /\ \E r \in {WriteResult(s, order)} :
              /\ r.ongrid
              /\ IF r.exc # ""
                 THEN Fail(s, r.exc, r.msg)
                 ELSE /\ sessions[s].call.op = "create" => id_seq <= max_rankings
                      /\ sessions' = [sessions EXCEPT
                            ![s].pc = "commit",
                            ![s].snap = {},
                            ![s].writes = r.table \ user_rankings,
                            ![s].locked = @ \cup {x.id : x \in r.table \ user_rankings},
                            ![s].call = [@ EXCEPT !.id = r.id,
                                                  !.rebalanced = r.rebalanced]]
                      /\ id_seq' = IF sessions[s].call.op = "create"
                                   THEN id_seq + 1 ELSE id_seq
                      /\ UNCHANGED <<follows, user_rankings, now, last, listed, pure>>

WriteStep(s) == WriteStepUpTo(s, MaxRankings)

\* db.commit(): the writes become the committed rows and the locks go.
CommitStep(s) ==
    /\ user_rankings' = View(s)
    /\ sessions' = [sessions EXCEPT ![s] = Idle]
    /\ last' = sessions[s].call
    /\ listed' = <<>>
    /\ UNCHANGED <<follows, id_seq, now, pure>>

\* Sessions wait for each other: the database ends the wait by failing the
\* statement of one of them.  create_ranking turns the failure into a
\* ValueError; move_ranking lets it through.
DeadlockVictim(s) ==
    /\ Deadlocked(s)
    /\ Fail(s, IF sessions[s].call.op = "create" THEN "ValueError" ELSE "OperationalError",
            "deadlock detected")

\* delete_ranking: one DELETE, which waits for the lock of the row it
\* matches, and the commit.
ConcDelete(s, user_id, ranking_id) ==
    /\ \A t \in Sessions \ {s} : ranking_id \notin sessions[t].locked
    /\ LET r == delete_ranking(user_rankings, user_id, ranking_id)
       IN /\ user_rankings' = r.table
          /\ last' = [NoCall EXCEPT !.op = "delete", !.user_id = user_id,
                        !.ranking_id = ranking_id, !.deleted = r.deleted,
                        !.ts = now + 1]
    /\ now' = now + 1
    /\ listed' = <<>>
    /\ UNCHANGED <<follows, id_seq, sessions, pure>>

ConcNext ==
    \/ \E s \in Sessions :
          /\ MayBegin(s)
          /\ \E u \in Users, m \in ConcMedia, t \in ConcTiers, p \in ConcNeighborIds,
                n \in ConcNeighborIds, notes \in NotesInputs :
                BeginCreate(s, u, m, t, p, n, notes)
    \/ \E s \in Sessions :
          /\ MayBegin(s)
          /\ \E u \in Users, id \in ConcRankingIds, t \in ConcTiers,
                p \in ConcNeighborIds, n \in ConcNeighborIds :
                BeginMove(s, u, id, t, p, n)
    \/ \E s \in Sessions :
          /\ MayBegin(s)
          /\ \E u \in Users, id \in ConcRankingIds : ConcDelete(s, u, id)
    \/ \E s \in Sessions : sessions[s].pc = "lock_ranking" /\ LockRankingStep(s)
    \/ \E s \in Sessions : sessions[s].pc = "lock_prev" /\ LockPrevStep(s)
    \/ \E s \in Sessions : sessions[s].pc = "lock_next" /\ LockNextStep(s)
    \/ \E s \in Sessions : sessions[s].pc = "write" /\ RebalanceBeginStep(s)
    \/ \E s \in Sessions : sessions[s].pc \in {"write", "rebalance"} /\ WriteStep(s)
    \/ \E s \in Sessions : sessions[s].pc = "commit" /\ CommitStep(s)
    \/ \E s \in Sessions : sessions[s].pc # "idle" /\ DeadlockVictim(s)

SpecConc == Init /\ [][ConcNext]_vars

\* ------------------------------------------------- a series of calls
\* User 1 places rankings in tier S, one call after the other, starting
\* from ThreeTight: up to MaxSeriesOps creates (of the media item not
\* ranked yet) and moves, a failed call ending the run explored.
MaxSeriesOps == 3

InitSeries ==
    /\ user_rankings = ThreeTight
    /\ id_seq = 4
    /\ now = 0
    /\ last = NoCall
    /\ listed = <<>>
    /\ sessions = [s \in Sessions |-> Idle]
    /\ pure = NoMath
    /\ follows = {}

MaySeriesCall == Changed(last) /\ now < MaxSeriesOps

NextSeries ==
    \/ /\ MaySeriesCall
       /\ \E p \in OptIds, n \in OptIds :
             CreateRanking(1, MaxMedia + 1, "S", p, n, NULL_NOTES)
    \/ /\ MaySeriesCall
       /\ \E id \in RankingIds, p \in OptIds, n \in OptIds :
             MoveRanking(1, id, "S", p, n)

SpecSeries == InitSeries /\ [][NextSeries]_vars

\* ------------------------------------------ concurrent creates in a row
\* Creates of user 1 in tier S, each of a media item not ranked yet, as
\* transactions of the two sessions, starting from ThreeTight: up to
\* MaxCreateTxns of them, so that one can begin while another, begun before
\* a third committed, is still open.
MaxCreateTxns == 3
MaxCreateRankings == 5
CreateNeighborIds == {None, 1, 2, 3}

InitCreates ==
    /\ user_rankings = ThreeTight
    /\ id_seq = 4
    /\ now = 0
    /\ last = NoCall
    /\ listed = <<>>
    /\ sessions = [s \in Sessions |-> Idle]
    /\ pure = NoMath
    /\ follows = {}

NextCreates ==
    \/ \E s \in Sessions :
          /\ MayBeginUpTo(s, MaxCreateTxns)
          /\ \E p \in CreateNeighborIds, n \in CreateNeighborIds :
                BeginCreate(s, 1, MaxMedia + now + 1, "S", p, n, NULL_NOTES)
    \/ \E s \in Sessions : sessions[s].pc = "lock_prev" /\ LockPrevStep(s)
    \/ \E s \in Sessions : sessions[s].pc = "lock_next" /\ LockNextStep(s)
    \/ \E s \in Sessions : sessions[s].pc = "write" /\ RebalanceBeginStep(s)
    \/ \E s \in Sessions : /\ sessions[s].pc \in {"write", "rebalance"}
                            /\ WriteStepUpTo(s, MaxCreateRankings)
    \/ \E s \in Sessions : sessions[s].pc = "commit" /\ CommitStep(s)
    \/ \E s \in Sessions : sessions[s].pc # "idle" /\ DeadlockVictim(s)

SpecCreates == InitCreates /\ [][NextCreates]_vars

\* ---------------------------------- concurrent creates at adjacent rows
\* The creates of SpecCreates with every call naming neighbours that are
\* adjacent in the committed partition when the call is made.
\* prev and next, as a call names them, are adjacent in the partition `part`:
\* prev immediately above next, prev alone the last row, next alone the
\* first row, and no neighbour only when the partition is empty.
Adjacent(part, prev_id, next_id) ==
    LET prevs == {r \in part : r.id = prev_id}
        nexts == {r \in part : r.id = next_id}
    IN IF prev_id = None /\ next_id = None THEN part = {}
       ELSE IF next_id = None
       THEN /\ prevs # {}
            /\ \A p \in prevs : \A r \in part : ~PosLess(p.rank_position, r.rank_position)
       ELSE IF prev_id = None
       THEN /\ nexts # {}
            /\ \A n \in nexts : \A r \in part : ~PosLess(r.rank_position, n.rank_position)
       ELSE /\ prevs # {}
            /\ nexts # {}
            /\ \A p \in prevs, n \in nexts :
                  /\ PosLess(p.rank_position, n.rank_position)
                  /\ \A r \in part : ~(/\ PosLess(p.rank_position, r.rank_position)
                                       /\ PosLess(r.rank_position, n.rank_position))

AdjacentNeighborIds == {None} \cup 1..MaxCreateRankings

NextAdjacent ==
    \/ \E s \in Sessions :
          /\ MayBeginUpTo(s, MaxCreateTxns)
          /\ \E p \in AdjacentNeighborIds, n \in AdjacentNeighborIds :
                /\ Adjacent(Partition(user_rankings, 1, "S"), p, n)
                /\ BeginCreate(s, 1, MaxMedia + now + 1, "S", p, n, NULL_NOTES)
    \/ \E s \in Sessions : sessions[s].pc = "lock_prev" /\ LockPrevStep(s)
    \/ \E s \in Sessions : sessions[s].pc = "lock_next" /\ LockNextStep(s)
    \/ \E s \in Sessions : sessions[s].pc = "write" /\ RebalanceBeginStep(s)
    \/ \E s \in Sessions : /\ sessions[s].pc \in {"write", "rebalance"}
                            /\ WriteStepUpTo(s, MaxCreateRankings)
    \/ \E s \in Sessions : sessions[s].pc = "commit" /\ CommitStep(s)
    \/ \E s \in Sessions : sessions[s].pc # "idle" /\ DeadlockVictim(s)

SpecAdjacent == InitCreates /\ [][NextAdjacent]_vars

\* ------------------------------------------------- transactions that end
\* Creates and moves of user 1 as transactions of the two sessions, with the
\* scheduling the database gives them: a statement that can run does run,
\* a statement that waits for a lock runs once the lock is free, and of two
\* transactions that wait for each other the deadlock detector ends one.
\* Every create may take a fresh id, so that no bound of the model stops a
\* transaction.
LiveInputs ==
    {[user_id |-> 1, tier |-> t, prev_id |-> p, next_id |-> n]
       : t \in ConcTiers, p \in ConcNeighborIds, n \in ConcNeighborIds}

\* The next statement of the transaction of session s.
SessionStep(s) ==
    \/ sessions[s].pc = "lock_ranking" /\ LockRankingStep(s)
    \/ sessions[s].pc = "lock_prev" /\ LockPrevStep(s)
    \/ sessions[s].pc = "lock_next" /\ LockNextStep(s)
    \/ sessions[s].pc = "write" /\ RebalanceBeginStep(s)
    \/ /\ sessions[s].pc \in {"write", "rebalance"}
       /\ WriteStepUpTo(s, MaxRankings + MaxTxns)
    \/ sessions[s].pc = "commit" /\ CommitStep(s)
    \/ sessions[s].pc # "idle" /\ DeadlockVictim(s)

NextLive ==
    \/ \E s \in Sessions :
          /\ MayBegin(s)
          /\ \E c \in LiveInputs, m \in ConcMedia :
                BeginCreate(s, c.user_id, m, c.tier, c.prev_id, c.next_id, NULL_NOTES)
    \/ \E s \in Sessions :
          /\ MayBegin(s)
          /\ \E c \in LiveInputs, id \in ConcRankingIds :
                BeginMove(s, c.user_id, id, c.tier, c.prev_id, c.next_id)
    \/ \E s \in Sessions : SessionStep(s)

SpecLive ==
    /\ Init
    /\ [][NextLive]_vars
    /\ \A s \in Sessions : WF_vars(SessionStep(s))

\* ----------------------------------------------------------------- follows
\* create_follow and delete_follow of social_service, one call after the
\* other.  The users table is fixed (no call here writes it): the users
\* 1..MaxFollowUsers are active, the next one is deactivated, and the id
\* after that belongs to no user.  The caller (get_current_user) is an
\* active user; the target is any id.
MaxFollowUsers == 3
MaxFollowOps == 4

UsersTable ==
    {[id |-> u, is_active |-> TRUE] : u \in 1..MaxFollowUsers}
        \cup {[id |-> MaxFollowUsers + 1, is_active |-> FALSE]}

Followers == {u.id : u \in {x \in UsersTable : x.is_active}}
FollowTargets == 1..(MaxFollowUsers + 2)

Follow(id, follower_id, following_id, created_at) ==
    [id |-> id, follower_id |-> follower_id, following_id |-> following_id,
     created_at |-> created_at]

\* What a follow call returned or raised.
NoFollowCall ==
    [op |-> "none", follower_id |-> None, following_id |-> None, exc |-> "",
     msg |-> "", deleted |-> FALSE, ts |-> 0]

\* CHECK (follower_id <> following_id)
chk_no_self_follow(row) == row.follower_id # row.following_id

\* UNIQUE (follower_id, following_id)
uq_follow_violated(tbl, row) ==
    \E r \in tbl : /\ r.id # row.id
                   /\ r.follower_id = row.follower_id
                   /\ r.following_id = row.following_id

\* Variant: the target is looked up without the is_active filter.
_active_user_or_raise_any(users, user_id) == {u \in users : u.id = user_id}

\* db.query(User).filter(User.id == user_id, User.is_active.is_(True)):
\* the rows it matches (none: UserNotFoundError).
_active_user_or_raise(users, user_id) ==
    {u \in users : u.id = user_id /\ u.is_active}

\* db.query(Follow).filter(follower_id == .., following_id == ..)
FollowQuery(tbl, follower_id, following_id) ==
    {r \in tbl : r.follower_id = follower_id /\ r.following_id = following_id}

FollowRaise(exc, msg, tbl) == [exc |-> exc, msg |-> msg, table |-> tbl]

\* create_follow(db, follower_id, following_id): the three tests in their
\* order, then the INSERT (which meets the table's constraints) and the
\* commit.
create_follow(tbl, users, follower_id, following_id, new_id, ts) ==
    IF follower_id = following_id
    THEN FollowRaise("SelfFollowError", "You cannot follow yourself", tbl)
    ELSE IF _active_user_or_raise(users, following_id) = {}
    THEN FollowRaise("UserNotFoundError", "User not found", tbl)
    ELSE IF FollowQuery(tbl, follower_id, following_id) # {}
    THEN FollowRaise("AlreadyFollowingError", "You already follow this user", tbl)
    ELSE The({IF ~chk_no_self_follow(follow)
              THEN FollowRaise("IntegrityError", "chk_no_self_follow", tbl)
              ELSE IF uq_follow_violated(tbl, follow)
              THEN FollowRaise("IntegrityError", "uq_follow", tbl)
              ELSE [exc |-> "", msg |-> "", table |-> tbl \cup {follow}]
                : follow \in {Follow(new_id, follower_id, following_id, ts)}})

\* delete_follow(db, follower_id, following_id): the DELETE, the commit, and
\* count > 0.
delete_follow(tbl, follower_id, following_id) ==
    The({[table |-> tbl \ matched, deleted |-> Cardinality(matched) > 0]
           : matched \in {FollowQuery(tbl, follower_id, following_id)}})

CreateFollow(follower_id, following_id) ==
    /\ \E r \in {create_follow(follows, UsersTable, follower_id, following_id,
                               id_seq, now + 1)} :
          /\ follows' = r.table
          /\ id_seq' = IF r.exc = "" THEN id_seq + 1 ELSE id_seq
          /\ last' = [NoFollowCall EXCEPT !.op = "create_follow",
                        !.follower_id = follower_id,
                        !.following_id = following_id,
                        !.exc = r.exc, !.msg = r.msg, !.ts = now + 1]
    /\ now' = now + 1
    /\ UNCHANGED <<user_rankings, listed, sessions, pure>>

DeleteFollow(follower_id, following_id) ==
    /\ \E r \in {delete_follow(follows, follower_id, following_id)} :
          /\ follows' = r.table
          /\ last' = [NoFollowCall EXCEPT !.op = "delete_follow",
                        !.follower_id = follower_id,
                        !.following_id = following_id,
                        !.deleted = r.deleted, !.ts = now + 1]
    /\ now' = now + 1
    /\ UNCHANGED <<user_rankings, id_seq, listed, sessions, pure>>

InitFollows ==
    /\ user_rankings = {}
    /\ follows = {}
    /\ id_seq = 1
    /\ now = 0
    /\ last = NoFollowCall
    /\ listed = <<>>
    /\ sessions = [s \in Sessions |-> Idle]
    /\ pure = NoMath

NextFollows ==
    \/ /\ now < MaxFollowOps
       /\ \E f \in Followers, g \in FollowTargets : CreateFollow(f, g)
    \/ /\ now < MaxFollowOps
       /\ \E f \in Followers, g \in FollowTargets : DeleteFollow(f, g)

SpecFollows == InitFollows /\ [][NextFollows]_vars

\* ------------------------------------------- the functions on their own
\* RankingMath.calculate_position, RankingMath.interpolate_score and
\* rebalance_tier_positions run on arguments drawn from bounded sets: the
\* initial state holds the arguments, the action runs the function.
MaxCoarse == 3
MaxFine == 3
MaxPartitionRows == 3

\* Positions a row can hold: from -1000.0 to MaxCoarse * 1000.0 in steps of
\* 1000 / 2^PosBits, plus up to MaxFine steps of 1000 / 2^40.
PositionInputs ==
    {Pos(c, f) : c \in (0 - CoarsePerStep)..(MaxCoarse * CoarsePerStep),
                 f \in 0..MaxFine}

OptPositionInputs == {Nothing} \cup {Some(x) : x \in PositionInputs}

\* Scores a neighbour can hold: numeric(3,1) between 0.0 and 10.0, in tenths.
ScoreInputs == 0..100

OptScoreInputs == {Nothing} \cup {Some(x) : x \in ScoreInputs}

\* Positions of the rows of a partition: 1000.0, the two positions that
\* forty bisections leave next to it, 2000.0 and 3000.0.
PartitionPositions ==
    {Pos(CoarsePerStep, 0), Pos(CoarsePerStep, 1), Pos(CoarsePerStep, 2),
     Pos(2 * CoarsePerStep, 0), Pos(3 * CoarsePerStep, 0)}

\* Partitions of user 1 and tier S with at most MaxPartitionRows rows at
\* distinct positions (uq_user_tier_rank_position), and beside each a row of
\* user 2.
PartitionInputs ==
    {{Row(i, 1, i, "S", f[i], 95, NULL_NOTES, 0, 0) : i \in ids}
        \cup {Row(MaxPartitionRows + 1, 2, 1, "S", Pos(CoarsePerStep, 1), 95,
                  NULL_NOTES, 0, 0)}
       : ids \in SUBSET (1..MaxPartitionRows),
         f \in {g \in [1..MaxPartitionRows -> PartitionPositions] :
                   \A i, j \in 1..MaxPartitionRows : i # j => g[i] # g[j]}}

\* Neighbours of a new or moved row: rows of user 1 in the tier, at 1000.0
\* or 2000.0, with any score of the tier's band.
NeighborPositions == {Pos(CoarsePerStep, 0), Pos(2 * CoarsePerStep, 0)}

NeighborInputs(tier) ==
    {Row(2, 1, 2, tier, pos, score, NULL_NOTES, 0, 0)
       : pos \in NeighborPositions,
         score \in {x \in ScoreInputs : chk_visual_score_by_tier(tier, x)}}

OptNeighborInputs(tier) == {Nothing} \cup {Some(r) : r \in NeighborInputs(tier)}

\* The position and score a computation arrived at, or its failure.
Placed(rank_position, visual_score) ==
    [failed |-> FALSE, rank_position |-> rank_position, visual_score |-> visual_score]

NotPlaced == [failed |-> TRUE, rank_position |-> NoPos, visual_score |-> 0]

\* The placements of tier t to compute: each neighbour absent or one of
\* NeighborInputs(t).
PlacementInputs(t) ==
    {[fn |-> "placement", done |-> FALSE, tier |-> t, prev_row |-> p,
      next_row |-> n, sql |-> NotPlaced, math |-> NotPlaced]
       : p \in OptNeighborInputs(t), n \in OptNeighborInputs(t)}

\* The arguments of calculate_position: each neighbour's position or none.
CalculatePositionInputs ==
    {[fn |-> "calculate_position", done |-> FALSE, prev_rank |-> p,
      next_rank |-> n, out |-> MathOk(NoPos)]
       : p \in OptPositionInputs, n \in OptPositionInputs}

\* The arguments of needs_rebalance: two positions.
NeedsRebalanceInputs ==
    {[fn |-> "needs_rebalance", done |-> FALSE, prev_rank |-> p,
      next_rank |-> n, out |-> [needed |-> FALSE]]
       : p \in {Some(x) : x \in PositionInputs},
         n \in {Some(x) : x \in PositionInputs}}

\* The arguments of interpolate_score: a tier and each neighbour's score or
\* none.
InterpolateScoreInputs ==
    {[fn |-> "interpolate_score", done |-> FALSE, tier |-> t, prev_score |-> p,
      next_score |-> n, out |-> 0]
       : t \in Tiers, p \in OptScoreInputs, n \in OptScoreInputs}

\* The tables rebalance_tier_positions runs on.
RebalanceInputs ==
    {[fn |-> "rebalance_tier_positions", done |-> FALSE, before |-> tbl,
      table |-> tbl, first |-> tbl, runs |-> 0, failed |-> FALSE]
       : tbl \in PartitionInputs}

InitMath ==
    /\ user_rankings = {}
    /\ id_seq = 1
    /\ now = 0
    /\ last = NoCall
    /\ listed = <<>>
    /\ sessions = [s \in Sessions |-> Idle]
    /\ \/ \E t \in Tiers : pure \in PlacementInputs(t)
       \/ pure \in CalculatePositionInputs
       \/ pure \in NeedsRebalanceInputs
       \/ pure \in InterpolateScoreInputs
       \/ pure \in RebalanceInputs
    /\ follows = {}

CalculatePosition ==
    /\ pure.fn = "calculate_position"
    /\ ~pure.done
    /\ pure' = [pure EXCEPT !.done = TRUE,
                            !.out = calculate_position(pure.prev_rank, pure.next_rank)]
    /\ UNCHANGED <<follows, user_rankings, id_seq, now, last, listed, sessions>>

NeedsRebalance ==
    /\ pure.fn = "needs_rebalance"
    /\ ~pure.done
    /\ pure' = [pure EXCEPT !.done = TRUE,
                            !.out = [needed |-> needs_rebalance(pure.prev_rank[1],
                                                                pure.next_rank[1])]]
    /\ UNCHANGED <<follows, user_rankings, id_seq, now, last, listed, sessions>>

InterpolateScore ==
    /\ pure.fn = "interpolate_score"
    /\ ~pure.done
    /\ pure' = [pure EXCEPT !.done = TRUE,
                            !.out = interpolate_score(pure.tier, pure.prev_score,
                                                      pure.next_score)]
    /\ UNCHANGED <<follows, user_rankings, id_seq, now, last, listed, sessions>>

\* The placement of a row next to the neighbours given, computed both ways:
\* by insert_ranking_between once it has read its neighbours (its test of
\* their order, then v_new_rank, v_raw_score and the INSERT into an
\* otherwise empty table), and by calculate_position and interpolate_score
\* as _compute_position_and_score calls them.
Placement ==
    /\ pure.fn = "placement"
    /\ ~pure.done
    /\ LET has_prev == pure.prev_row # Nothing
           has_next == pure.next_row # Nothing
           v_prev == IF has_prev THEN pure.prev_row[1] ELSE NoRow
           v_next == IF has_next THEN pure.next_row[1] ELSE NoRow
           sql == IF has_prev /\ has_next /\ SqlOrderViolated(v_prev, v_next)
                  THEN Raised("RaiseException",
                              "prev.rank_position must be < next.rank_position", {})
                  ELSE InsertComputed({}, {}, 1, 1, pure.tier, has_prev, has_next,
                                      v_prev, v_next, FALSE, 1, 0)
           math == PositionAndScore({}, pure.tier, pure.prev_row, pure.next_row, FALSE)
       IN pure' = [pure EXCEPT
                     !.done = TRUE,
                     !.sql = IF sql.exc # "" THEN NotPlaced
                             ELSE Placed(The(sql.table).rank_position,
                                         The(sql.table).visual_score),
                     !.math = IF math.exc # "" THEN NotPlaced
                              ELSE Placed(math.new_position, math.new_score)]
    /\ UNCHANGED <<follows, user_rankings, id_seq, now, last, listed, sessions>>

\* SELECT rebalance_tier_positions(user 1, 'S'), run up to twice in a row;
\* a run that raises ends the transaction.
RebalanceTierPositions ==
    /\ pure.fn = "rebalance_tier_positions"
    /\ ~pure.done
    /\ \E order \in UpdateOrders(Partition(pure.table, 1, "S")) :
         \E r \in {rebalance_tier_positions(pure.table, pure.table, 1, "S", order,
                                            pure.runs + 1)} :
            pure' = [pure EXCEPT !.table = r.table,
                                 !.first = IF pure.runs = 0 THEN r.table ELSE @,
                                 !.runs = @ + 1,
                                 !.failed = ~r.ok,
                                 !.done = ~r.ok \/ pure.runs = 1]
    /\ UNCHANGED <<follows, user_rankings, id_seq, now, last, listed, sessions>>

NextMath ==
    \/ Placement
    \/ CalculatePosition
    \/ NeedsRebalance
    \/ InterpolateScore
    \/ RebalanceTierPositions

SpecMath == InitMath /\ [][NextMath]_vars

\* ------------------------------------------------------------- properties
\* The call the step made is last'; user_rankings is the table before the
\* call and user_rankings' the table after it.

\* The caller owns a ranking of this id.
OwnedBy(id, user_id) ==
    \E r \in user_rankings : r.id = id /\ r.user_id = user_id

\* The id resolves to a ranking of the caller placed in the requested tier.
Resolves(id, call) ==
    \E r \in user_rankings :
        r.id = id /\ r.user_id = call.user_id /\ r.tier = call.tier

\* The call names a prev or next id that does not resolve.
UnresolvedNeighbor(call) ==
    \/ call.prev_id # None /\ ~Resolves(call.prev_id, call)
    \/ call.next_id # None /\ ~Resolves(call.next_id, call)

\* The call names both neighbours, and they are the same ranking or prev is
\* not strictly before next.
NeighborsOutOfOrder(call) ==
    /\ call.prev_id # None
    /\ call.next_id # None
    /\ \/ call.prev_id = call.next_id
       \/ \E p, n \in user_rankings :
             /\ p.id = call.prev_id
             /\ n.id = call.next_id
             /\ ~PosLess(p.rank_position, n.rank_position)

\* C1: in every reachable state no two rankings of the same user and tier
\* have the same rank_position, and no user has two rankings for the same
\* media item.
C1_UniquePositionAndMedia ==
    \A a, b \in user_rankings :
        (a # b /\ a.user_id = b.user_id) =>
            /\ ~(a.tier = b.tier /\ a.rank_position = b.rank_position)
            /\ a.media_item_id # b.media_item_id

\* Two transactions overlapped: a create or move that began first has
\* committed into a partition holding a row that a transaction begun after
\* it inserted.
C1_Witness ==
    /\ last.op \in {"create", "move"}
    /\ last.exc = ""
    /\ \E r, q \in Partition(user_rankings, last.user_id, last.tier) :
          /\ r.id = last.id
          /\ r.updated_at = last.ts
          /\ q.created_at > last.ts

\* C2: in every reachable state each ranking's visual_score lies inside the
\* inclusive band of the tier the ranking has (S 9.0-10.0, A 8.0-8.9,
\* B 7.0-7.9, C 6.0-6.9, D 0.0-5.9), and it is the derivation that keeps it
\* there: no call is turned down by the table's score check, so a move to
\* another tier never leaves the old tier's score on the row.
C2_ScoreInTierBand ==
    /\ \A r \in user_rankings :
          \/ r.tier = "S" /\ 90 <= r.visual_score /\ r.visual_score <= 100
          \/ r.tier = "A" /\ 80 <= r.visual_score /\ r.visual_score <= 89
          \/ r.tier = "B" /\ 70 <= r.visual_score /\ r.visual_score <= 79
          \/ r.tier = "C" /\ 60 <= r.visual_score /\ r.visual_score <= 69
          \/ r.tier = "D" /\ 0 <= r.visual_score /\ r.visual_score <= 59
    /\ last.msg # "chk_visual_score_by_tier"

\* A ranking created in tier S has been moved to another tier.
C2_Witness ==
    /\ last.op = "move"
    /\ last.exc = ""
    /\ last.tier # "S"
    /\ \E r \in user_rankings :
          r.id = last.ranking_id /\ r.created_at = 0 /\ r.tier = last.tier

\* C3: a create whose (user, media item) pair already has a ranking fails
\* with the duplicate-ranking conflict, whatever tier and neighbour ids it
\* names, and no row is inserted, changed or renumbered.
C3_DuplicateAlwaysConflict ==
    [][(/\ last'.op = "create"
        /\ \E r \in user_rankings :
              r.user_id = last'.user_id /\ r.media_item_id = last'.media_id)
       => (/\ last'.exc = "DuplicateRankingError"
           /\ user_rankings' = user_rankings)]_vars

\* C4, as stated: a create or move naming a prev or next id that does not
\* resolve to a ranking of the caller in the requested tier fails with the
\* neighbour validation error, and no row is inserted or changed.
C4_UnresolvedNeighborAlwaysValidationError ==
    [][(last'.op \in {"create", "move"} /\ UnresolvedNeighbor(last'))
       => (last'.exc = "ValueError" /\ user_rankings' = user_rankings)]_vars

\* C4: a create, or a move of a ranking the caller owns, that names a prev
\* or next id which does not resolve to a ranking of the caller in the
\* requested tier fails with the neighbour validation error; a move of a
\* ranking the caller does not own fails with ranking-not-found before its
\* neighbours are looked at; either way no row is inserted or changed.
C4_UnresolvedNeighborRejected ==
    [][(last'.op \in {"create", "move"} /\ UnresolvedNeighbor(last'))
       => (/\ user_rankings' = user_rankings
           /\ last'.exc =
                IF last'.op = "move" /\ ~OwnedBy(last'.ranking_id, last'.user_id)
                THEN "RankingNotFoundError"
                ELSE "ValueError")]_vars

\* A move of the caller's own ranking named a neighbour of another tier.
C4_Witness ==
    /\ last.op = "move"
    /\ last.exc = "ValueError"
    /\ last.msg = "next ranking is in another tier"

\* C5: a create or move that names both neighbours fails, and no row is
\* changed (the neighbours are not swapped), whenever prev_id equals next_id
\* or prev's rank_position is not strictly less than next's.
C5_OutOfOrderNeighborsRejected ==
    [][(last'.op \in {"create", "move"} /\ NeighborsOutOfOrder(last'))
       => (last'.exc # "" /\ user_rankings' = user_rankings)]_vars

\* A create named two rankings of the tier with prev after next.
C5_Witness ==
    /\ last.op = "create"
    /\ last.exc = "ValueError"
    /\ last.msg = "prev.rank_position must be < next.rank_position"
    /\ last.prev_id # last.next_id

\* The ranking of this id has the same tier, rank_position and visual_score
\* after the call as before it (and is there after it if it was before).
PlacementUnchanged(id) ==
    {<<r.tier, r.rank_position, r.visual_score>> : r \in {q \in user_rankings : q.id = id}}
      = {<<r.tier, r.rank_position, r.visual_score>> : r \in {q \in user_rankings' : q.id = id}}

\* C6, as stated: a move in which prev_id or next_id is the id of the ranking
\* being moved fails with a validation error and leaves that ranking's tier,
\* rank_position and visual_score unchanged.
C6_SelfNeighborAlwaysValidationError ==
    [][(last'.op = "move" /\ last'.ranking_id \in {last'.prev_id, last'.next_id})
       => (last'.exc = "ValueError" /\ PlacementUnchanged(last'.ranking_id))]_vars

\* C6: a move of a ranking the caller owns in which prev_id or next_id is the
\* id of that ranking fails with a validation error; when the caller does not
\* own the ranking the move fails with ranking-not-found instead; either way
\* the ranking's tier, rank_position and visual_score are unchanged.
C6_SelfNeighborRejected ==
    [][(last'.op = "move" /\ last'.ranking_id \in {last'.prev_id, last'.next_id})
       => (/\ PlacementUnchanged(last'.ranking_id)
           /\ last'.exc =
                IF OwnedBy(last'.ranking_id, last'.user_id)
                THEN "ValueError"
                ELSE "RankingNotFoundError")]_vars

\* A move named the ranking being moved, in its own tier, as its prev.
C6_Witness ==
    /\ last.op = "move"
    /\ last.prev_id = last.ranking_id
    /\ last.exc = "ValueError"
    /\ last.msg = "prev ranking cannot be the same as the ranking being moved"

\* C7: a move on a ranking id that does not exist or is owned by a different
\* user fails with ranking-not-found and changes no row of any user.
C7_MoveOfUnownedRankingNotFound ==
    [][(last'.op = "move" /\ ~OwnedBy(last'.ranking_id, last'.user_id))
       => (/\ last'.exc = "RankingNotFoundError"
           /\ user_rankings' = user_rankings)]_vars

\* A user tried to move a ranking that exists and is another user's.
C7_Witness ==
    /\ last.op = "move"
    /\ last.exc = "RankingNotFoundError"
    /\ \E r \in user_rankings : r.id = last.ranking_id /\ r.user_id # last.user_id

\* C8: a successful move changes only tier, rank_position and visual_score
\* (and the last-updated timestamp) of the moved ranking: no row is added or
\* removed, its id, user, media item, notes and created timestamp are
\* unchanged, and no other row changes unless the move rebalanced the target
\* partition, and then only rows of that partition and only their
\* rank_position (and last-updated timestamp).
C8_MoveFrame ==
    [][(last'.op = "move" /\ last'.exc = "")
       => (/\ {r.id : r \in user_rankings'} = {r.id : r \in user_rankings}
           /\ Cardinality(user_rankings') = Cardinality(user_rankings)
           /\ \A o \in user_rankings : \A n \in user_rankings' :
                 o.id = n.id =>
                    /\ n.user_id = o.user_id
                    /\ n.media_item_id = o.media_item_id
                    /\ n.notes = o.notes
                    /\ n.created_at = o.created_at
                    /\ (o.id # last'.ranking_id /\ n # o) =>
                          /\ last'.rebalanced
                          /\ o.user_id = last'.user_id
                          /\ o.tier = last'.tier
                          /\ n.tier = o.tier
                          /\ n.visual_score = o.visual_score)]_vars

\* A move succeeded after rebalancing the partition it moved into.
C8_Witness ==
    /\ last.op = "move"
    /\ last.exc = ""
    /\ last.rebalanced
    /\ \E r \in user_rankings : r.id # last.ranking_id /\ r.updated_at = now

\* C9: delete(user, ranking_id) removes the row if and only if it exists and
\* is owned by user, returns true exactly when a row was removed, and
\* otherwise (absent id, another user's ranking, a repeated delete) returns
\* false with the table unchanged; no other row is ever removed.
C9_DeleteOwnedRowOnly ==
    [][last'.op = "delete"
       => (/\ user_rankings' =
                {r \in user_rankings :
                    ~(r.id = last'.ranking_id /\ r.user_id = last'.user_id)}
           /\ last'.deleted = OwnedBy(last'.ranking_id, last'.user_id)
           /\ last'.deleted = (user_rankings' # user_rankings))]_vars

\* A delete removed a row and left another in the table.
C9_Witness ==
    /\ last.op = "delete"
    /\ last.deleted
    /\ user_rankings # {}
    /\ \A r \in user_rankings : r.id # last.ranking_id

\* C10: the list of a user's rankings holds that user's rankings and only
\* them, each once, sorted by tier rank ascending (S=1, A=2, B=3, C=4, D=5)
\* and, within a tier, by rank_position ascending.
C10_ListOwnedAndSorted ==
    last.op = "list" =>
        LET rank(t) == CASE t = "S" -> 1 [] t = "A" -> 2 [] t = "B" -> 3
                         [] t = "C" -> 4 [] t = "D" -> 5
            n == Len(listed)
        IN /\ \A i \in 1..n : listed[i].user_id = last.user_id
           /\ {listed[i] : i \in 1..n}
                = {r \in user_rankings : r.user_id = last.user_id}
           /\ \A i, j \in 1..n : i < j =>
                 \/ rank(listed[i].tier) < rank(listed[j].tier)
                 \/ /\ listed[i].tier = listed[j].tier
                    /\ PosLess(listed[i].rank_position, listed[j].rank_position)

\* A list of three rankings spread over two tiers.
C10_Witness ==
    /\ last.op = "list"
    /\ Len(listed) >= 3
    /\ listed[1].tier # listed[Len(listed)].tier

\* The published score band of a tier, in tenths.
PublishedBand(tier) ==
    CASE tier = "S" -> <<90, 100>> [] tier = "A" -> <<80, 89>>
      [] tier = "B" -> <<70, 79>> [] tier = "C" -> <<60, 69>>
      [] tier = "D" -> <<0, 59>>

\* C11: for every tier and every combination of present or absent
\* prev_score and next_score, neighbour scores outside the tier's band
\* included, interpolate_score returns a whole number of tenths (one
\* fractional digit) inside the tier's inclusive [min, max] band.
C11_InterpolatedScoreInBand ==
    (pure.fn = "interpolate_score" /\ pure.done) =>
        /\ pure.out \in Int
        /\ PublishedBand(pure.tier)[1] <= pure.out
        /\ pure.out <= PublishedBand(pure.tier)[2]

\* Two neighbour scores above the band of tier A were averaged and the
\* result clamped to the top of the band.
C11_Witness ==
    /\ pure.fn = "interpolate_score"
    /\ pure.done
    /\ pure.tier = "A"
    /\ pure.prev_score = Some(95)
    /\ pure.next_score = Some(97)
    /\ pure.out = 89

\* 1000.0 as a position.
Thousand == Pos(CoarsePerStep, 0)

GapAtLeastThreshold(p, n) ==
    \/ n.c - p.c > 0
    \/ n.c = p.c /\ n.f - p.f >= 2

C14_ExhaustedGapSignalled ==
    (/\ pure.fn \in {"calculate_position", "needs_rebalance"}
     /\ pure.done
     /\ pure.prev_rank # Nothing
     /\ pure.next_rank # Nothing) =>
        LET p == pure.prev_rank[1]
            n == pure.next_rank[1]
        IN (PosLess(p, n) /\ ~GapAtLeastThreshold(p, n)) =>
              IF pure.fn = "needs_rebalance"
              THEN pure.out.needed
              ELSE /\ pure.out.exc = "ValueError"
                   /\ pure.out.msg = "Gap too small"
                   /\ pure.out.pos = NoPos

\* The gap of 1000/2^40 = 9.09e-10 between two rows above 2000.0 was found
\* exhausted.
C14_Witness ==
    /\ pure.fn = "calculate_position"
    /\ pure.done
    /\ pure.prev_rank = Some(Pos(2 * CoarsePerStep, 1))
    /\ pure.next_rank = Some(Pos(2 * CoarsePerStep, 2))
    /\ pure.out.exc = "ValueError"
    /\ pure.out.msg = "Gap too small"

\* The step made a ranking in tier S with prev = a ranking at position
\* 1000.0 with score 9.5, and no next.
AppendedAfterFirstOfS ==
    /\ last'.op = "create"
    /\ last'.exc = ""
    /\ last'.tier = "S"
    /\ last'.next_id = None
    /\ \E p \in user_rankings :
          /\ p.id = last'.prev_id
          /\ p.rank_position = Thousand
          /\ p.visual_score = 95

\* C15, as stated: creating a ranking in tier S with prev = a ranking at
\* position 1000.0 with score 9.5 and no next yields position 2000.0 and
\* score avg(9.5, 10.0) = 9.75 rounded to 9.8.
C15_AppendScoreAveragesTierMax ==
    [][AppendedAfterFirstOfS
       => \E r \in user_rankings' :
             /\ r.id = last'.id
             /\ r.rank_position = PosAdd(Thousand, Thousand)
             /\ r.visual_score = 98]_vars

\* C15: creating a ranking in tier S with prev = a ranking at position
\* 1000.0 with score 9.5 and no next yields position 2000.0 and score
\* avg(9.5, 9.0) = 9.25 rounded to 9.3, within [9.0, 10.0].
C15_AppendScoreAveragesTierMin ==
    [][AppendedAfterFirstOfS
       => \E r \in user_rankings' :
             /\ r.id = last'.id
             /\ r.tier = "S"
             /\ r.rank_position = PosAdd(Thousand, Thousand)
             /\ r.visual_score = 93
             /\ 90 <= r.visual_score /\ r.visual_score <= 100]_vars

\* A ranking was created after the ranking at 1000.0 with score 9.5.
C15_Witness ==
    /\ last.op = "create"
    /\ last.exc = ""
    /\ last.tier = "S"
    /\ last.next_id = None
    /\ \E p, r \in user_rankings :
          /\ p.id = last.prev_id
          /\ p.rank_position = Thousand
          /\ p.visual_score = 95
          /\ r.id = last.id
          /\ r.rank_position = PosAdd(Thousand, Thousand)

\* The scores the midpoint of a tier's range may round to: 9.5 for S, 7.5
\* for B (7.45 rounded up); for the other tiers the tenth below or above
\* the midpoint.
RoundedTierMidpoints(tier) ==
    CASE tier = "S" -> {95}
      [] tier = "B" -> {75}
      [] tier = "A" -> {84, 85}
      [] tier = "C" -> {64, 65}
      [] tier = "D" -> {29, 30}

\* C16: moving a ranking into a tier with no neighbours sets its
\* visual_score to the midpoint of the tier's range rounded to one digit
\* (9.5 for S, and 7.45 rounded to 7.5 for B); the tier is updated and the
\* ranking's id and notes are unchanged.
C16_MoveWithoutNeighboursScoresMidpoint ==
    [][(/\ last'.op = "move"
        /\ last'.exc = ""
        /\ last'.prev_id = None
        /\ last'.next_id = None)
       => \E o \in user_rankings : \E r \in user_rankings' :
             /\ o.id = last'.ranking_id
             /\ r.id = o.id
             /\ r.notes = o.notes
             /\ r.tier = last'.tier
             /\ r.visual_score \in RoundedTierMidpoints(last'.tier)]_vars

\* The rank_position of the row with the given id.
PositionOf(tbl, id) == The({r.rank_position : r \in {q \in tbl : q.id = id}})

\* Two tables list the rows of user 1's tier S in the same order by
\* rank_position.
SameOrder(t1, t2) ==
    \A a, b \in {r.id : r \in Partition(t1, 1, "S")} :
        PosLess(PositionOf(t1, a), PositionOf(t1, b))
            <=> PosLess(PositionOf(t2, a), PositionOf(t2, b))

\* C17: rebalancing is idempotent and order-preserving: a second rebalance
\* right after the first leaves every row at the position the first gave
\* it, and the rows are in the same order by rank_position before and after
\* a rebalance.
C17_RebalanceIdempotentOrderPreserving ==
    (pure.fn = "rebalance_tier_positions" /\ ~pure.failed)
    => /\ pure.runs >= 1 => SameOrder(pure.before, pure.first)
       /\ pure.runs = 2 =>
             /\ SameOrder(pure.before, pure.table)
             /\ {r.id : r \in pure.table} = {r.id : r \in pure.first}
             /\ \A r \in pure.table :
                   PositionOf(pure.table, r.id) = PositionOf(pure.first, r.id)

\* C17 witness: three rows whose order by position is not their order by
\* id, moved by the first rebalance and rebalanced a second time.
C17_Witness ==
    /\ pure.fn = "rebalance_tier_positions"
    /\ pure.runs = 2
    /\ ~pure.failed
    /\ Cardinality(Partition(pure.before, 1, "S")) = 3
    /\ PosLess(PositionOf(pure.before, 3), PositionOf(pure.before, 1))
    /\ PositionOf(pure.before, 3) # PositionOf(pure.first, 3)
    /\ PositionOf(pure.table, 3) = Thousand

\* The call names two neighbours that pass validation (both of the caller
\* and the tier, neither the moved ranking, prev below next) and whose gap
\* is under the threshold.
ExhaustedBetweenValidated(tbl, call) ==
    /\ call.op \in {"create", "move"}
    /\ GapExhausted(tbl, call)
    /\ \A r \in tbl : r.id \in {call.prev_id, call.next_id}
                        => r.user_id = call.user_id /\ r.tier = call.tier
    /\ call.op = "move" =>
          /\ call.ranking_id \notin {call.prev_id, call.next_id}
          /\ LockRanking(tbl, call.ranking_id, call.user_id) # {}

\* C18: when create or move finds the gap between two validated neighbours
\* exhausted, then once the partition is rebalanced and the neighbours are
\* read again prev is strictly below next with a gap of at least the
\* threshold, and the retried calculation does not fail.
C18_RetryAfterRebalanceSucceeds ==
    [][ExhaustedBetweenValidated(user_rankings, last')
       => (/\ last'.msg \notin {"Gap too small",
                                "prev_rank must be less than next_rank",
                                "prev.rank_position must be < next.rank_position"}
           /\ last'.exc = "" => last'.rebalanced
           /\ \A order \in UpdateOrders(Partition(user_rankings, last'.user_id,
                                                  last'.tier)) :
                 \A reb \in {rebalance_tier_positions(user_rankings, user_rankings,
                                                      last'.user_id,
                                                      last'.tier, order, now')} :
                    reb.ok =>
                       /\ PosLess(PositionOf(reb.table, last'.prev_id),
                                  PositionOf(reb.table, last'.next_id))
                       /\ ~BelowThreshold(PosSub(PositionOf(reb.table, last'.next_id),
                                                 PositionOf(reb.table, last'.prev_id))))]_vars

\* C18 witness: a create between two neighbours one grid step apart went
\* through the rebalance and inserted its row between them.
C18_Witness ==
    /\ last.op = "create"
    /\ last.exc = ""
    /\ last.rebalanced
    /\ \E p, n, r \in user_rankings :
          /\ p.id = last.prev_id
          /\ n.id = last.next_id
          /\ r.id = last.id
          /\ ~BelowThreshold(PosSub(n.rank_position, p.rank_position))
          /\ PosLess(p.rank_position, r.rank_position)
          /\ PosLess(r.rank_position, n.rank_position)

\* C19: a rebalance of a partition always completes: rewriting the rows
\* never raises and never trips the uniqueness of rank_position within the
\* (user, tier) partition.
C19_RebalanceAlwaysCompletes ==
    pure.fn = "rebalance_tier_positions" => ~pure.failed

\* What create and move raise when the neighbours named do not pass
\* validation.
ValidationMessages ==
    {"prev and next ranking ids must be different",
     "prev ranking not found for user/tier",
     "next ranking not found for user/tier",
     "prev.rank_position must be < next.rank_position",
     "prev ranking not found for this user",
     "next ranking not found for this user",
     "prev ranking is in another tier",
     "next ranking is in another tier",
     "prev ranking cannot be the same as the ranking being moved",
     "next ranking cannot be the same as the ranking being moved",
     "prev must have a lower rank_position than next"}

\* In this step the call of session s ends with a validation failure.
ValidationFailure(s) ==
    /\ sessions[s].pc # "idle"
    /\ sessions'[s].pc = "idle"
    /\ last'.op \in {"create", "move"}
    /\ last'.exc = "ValueError"
    /\ last'.msg \in ValidationMessages

\* The row locks session s holds when its statement fails: those of its
\* earlier statements and, in move, the lock _fetch takes on the neighbour
\* before it looks at the row.
LocksAtFailure(s) ==
    sessions[s].locked
      \cup (IF sessions[s].call.op = "move" /\ sessions[s].pc \in {"lock_prev", "lock_next"}
            THEN RowsToLock(s) ELSE {})

NamedIds(call) == {call.ranking_id, call.prev_id, call.next_id} \ {None}

\* C21: two concurrent create/move operations that name a common row are
\* serialized by that row's lock: no two open transactions hold the lock of
\* the same row, a row an open transaction has locked is not changed by
\* anyone else before that transaction ends, and a transaction writes only
\* once it holds the lock of every row it names; so the later operation
\* reads the common row after the earlier one has ended, and the values an
\* operation computes from are those committed when it commits.
C21_CommonRowSerializes ==
    [][/\ \A s, t \in Sessions :
             s # t => sessions[s].locked \cap sessions[t].locked = {}
       /\ \A s \in Sessions : \A r \in user_rankings :
             (r.id \in sessions[s].locked /\ sessions'[s].pc # "idle")
                => r \in user_rankings'
       /\ \A s \in Sessions :
             (sessions[s].pc \in {"write", "rebalance"} /\ sessions'[s].pc = "commit")
                => NamedIds(sessions[s].call) \subseteq sessions[s].locked]_vars

\* C21 witness: two open operations on the same partition name a common
\* row; one holds its lock and has written, the other is at the statement
\* that reads the row and waits.
C21_Witness ==
    \E s, t \in Sessions :
        /\ s # t
        /\ sessions[s].pc = "commit"
        /\ sessions[t].pc \in {"lock_ranking", "lock_prev", "lock_next"}
        /\ sessions[s].call.user_id = sessions[t].call.user_id
        /\ sessions[s].call.tier = sessions[t].call.tier
        /\ NamedIds(sessions[s].call) \cap NamedIds(sessions[t].call)
             \cap sessions[s].locked \cap RowsToLock(t) # {}
        /\ s \in LockWait(t)

\* The rebalance of the call has left the partition half renumbered: one
\* of its rows (other than the row the call inserted or moved) was rewritten
\* by the rebalance, another was not.
HalfRenumbered(tbl, call) ==
    \E r, q \in Partition(tbl, call.user_id, call.tier) :
        /\ r.id # call.id
        /\ q.id # call.id
        /\ r.updated_at = call.ts
        /\ q.updated_at # call.ts

\* C22: when a create or move has rebalanced a partition, no concurrent
\* create or move on that partition reads a state in which some rows carry
\* renumbered positions and others their old ones: when the rebalancing
\* operation commits, an operation on the partition that is open and has
\* statements still to run does not find the partition half renumbered.
C22_NoHalfRenumberedRead ==
    [][\A s, t \in Sessions :
          (/\ s # t
           /\ sessions[s].pc = "commit"
           /\ sessions'[s].pc = "idle"
           /\ last'.rebalanced
           /\ sessions[t].pc \in {"lock_ranking", "lock_prev", "lock_next", "write"}
           /\ sessions'[t] = sessions[t]
           /\ sessions[t].call.user_id = last'.user_id
           /\ sessions[t].call.tier = last'.tier)
          => ~HalfRenumbered(user_rankings', last')]_vars

\* C23: every create or move that starts eventually finishes, committed or
\* failed: no transactions wait for each other's row locks for ever.
C23_EveryOperationEnds ==
    \A s \in Sessions : (sessions[s].pc # "idle") ~> (sessions[s].pc = "idle")

\* C23 witness: two operations that took their rows in opposite orders
\* waited for each other; one was ended as the deadlock victim and the
\* other, holding both rows, goes on.
C23_Witness ==
    /\ last.op \in {"create", "move"}
    /\ last.msg = "deadlock detected"
    /\ \E s \in Sessions :
          /\ sessions[s].pc \in {"write", "rebalance"}
          /\ {last.prev_id, last.next_id} = {sessions[s].call.prev_id,
                                             sessions[s].call.next_id}
          /\ last.prev_id = sessions[s].call.next_id
          /\ last.prev_id # last.next_id
          /\ {last.prev_id, last.next_id} \subseteq sessions[s].locked

\* The tiers the open call of session s works in: the tier it names and the
\* tiers of the moved row and the neighbours it names, in any version of
\* these rows that is committed or written by an open transaction.
TiersTouched(s) ==
    {sessions[s].call.tier} \cup
    {r.tier : r \in {q \in user_rankings \cup UNION {sessions[t].writes : t \in Sessions}
                        : q.id \in NamedIds(sessions[s].call)}}

\* C24: a create or move never waits for an operation of a different user,
\* nor for an operation of the same user whose moved row and neighbours all
\* lie in another tier: whenever a session waits for another one, both calls
\* are of the same user and they have a tier in common.
C24_NoWaitAcrossUsersOrTiers ==
    \A s \in Sessions : \A t \in WaitsFor(s) :
        /\ sessions[s].call.user_id = sessions[t].call.user_id
        /\ TiersTouched(s) \cap TiersTouched(t) # {}

\* The notes a create stores: payload.notes when it is not empty.
StoredNotes(notes) == IF notes = "" THEN NULL_NOTES ELSE notes

\* C25: a create or move that fails before its commit (also after the
\* rebalance it triggered) leaves the committed rows exactly as they were;
\* what a transaction has written and not committed is read by no other
\* transaction; and the committed rows change only by a commit, which
\* publishes all the writes of its transaction at once, a created row
\* together with its notes.
C25_FailureLeavesNothingVisible ==
    [][/\ (last' # last /\ last'.exc # "") => user_rankings' = user_rankings
       /\ \A s, t \in Sessions :
             s # t => \A x \in sessions[s].writes :
                         x \in View(t) => x \in user_rankings \cup sessions[t].writes
       /\ user_rankings' # user_rankings =>
             /\ last' # last
             /\ last'.exc = ""
             /\ last'.op \in {"create", "move"} =>
                   \E s \in Sessions :
                      /\ sessions[s].pc = "commit"
                      /\ sessions'[s].pc = "idle"
                      /\ user_rankings' =
                            {r \in user_rankings : r.id \notin WrittenIds(s)}
                               \cup sessions[s].writes
                      /\ last'.op = "create" =>
                            \E r \in user_rankings' :
                               /\ r.id = last'.id
                               /\ r.notes = StoredNotes(sessions[s].notes)
      ]_vars

\* C25 witness: a create between two neighbours whose gap is exhausted
\* rebalanced the partition and then failed on the duplicate media item,
\* while another transaction is open: the committed partition still has the
\* exhausted gap.
C25_Witness ==
    /\ last.op = "create"
    /\ last.exc = "DuplicateRankingError"
    /\ GapExhausted(user_rankings, last)
    /\ \E t \in Sessions : sessions[t].pc # "idle"

\* C26: after a successful create or move the committed position of the new
\* or moved ranking is strictly after that of prev when prev was named and
\* strictly before that of next when next was named, rebalance or not.
C26_PlacedBetweenNeighbours ==
    (last.op \in {"create", "move"} /\ last.exc = "") =>
        \A m \in {r \in user_rankings : r.id = last.id} :
            /\ \A p \in {r \in user_rankings : r.id = last.prev_id} :
                  PosLess(p.rank_position, m.rank_position)
            /\ \A n \in {r \in user_rankings : r.id = last.next_id} :
                  PosLess(m.rank_position, n.rank_position)

\* C27: in every state reached by create_follow and delete_follow calls no
\* follow row has follower_id = following_id and no two rows have the same
\* (follower_id, following_id); a create_follow on oneself raises
\* SelfFollowError, on a pair that exists AlreadyFollowingError, on a target
\* that does not exist or is not active UserNotFoundError, each leaving
\* follows as it was; and delete_follow returns true exactly when it removed
\* a row.
C27_FollowsWellFormed ==
    [][/\ \A r \in follows' : r.follower_id # r.following_id
       /\ \A r1, r2 \in follows' :
             (r1.follower_id = r2.follower_id /\ r1.following_id = r2.following_id)
                => r1 = r2
       /\ (last' # last /\ last'.op = "create_follow") =>
             LET f == last'.follower_id
                 g == last'.following_id
             IN /\ f = g => (last'.exc = "SelfFollowError" /\ follows' = follows)
                /\ (f # g /\ \E r \in follows : r.follower_id = f /\ r.following_id = g)
                      => (last'.exc = "AlreadyFollowingError" /\ follows' = follows)
                /\ (f # g /\ ~\E u \in UsersTable : u.id = g /\ u.is_active)
                      => (last'.exc = "UserNotFoundError" /\ follows' = follows)
       /\ (last' # last /\ last'.op = "delete_follow") =>
             /\ last'.deleted <=> follows' # follows
             /\ follows' \subseteq follows
             /\ ~\E r \in follows' : /\ r.follower_id = last'.follower_id
                                     /\ r.following_id = last'.following_id
      ]_vars

\* C27 witness: with two follow rows in the table, a create_follow of a pair
\* that exists was refused.
C27_Witness ==
    /\ last.op = "create_follow"
    /\ last.exc = "AlreadyFollowingError"
    /\ Cardinality(follows) >= 2
    /\ \E r \in follows : /\ r.follower_id = last.follower_id
                          /\ r.following_id = last.following_id

\* C28: for every tier and every neighbour context, insert_ranking_between
\* (used by create) and the RankingMath functions (used by move) arrive at
\* the same rank_position and the same visual_score, or both refuse, also
\* when the raw score lies exactly halfway between two one-digit values.
C28_SqlAndMathAgree ==
    (pure.fn = "placement" /\ pure.done) => pure.sql = pure.math

\* C29: a create of a media item not ranked yet, or a move of an owned
\* ranking, whose neighbours pass every validation persists its row: the
\* position computed is never the position of another ranking of the target
\* partition, so the call never ends on uq_user_tier_rank_position.
C29_ValidatedCallPersists ==
    last.op \in {"create", "move"} =>
        ~(last.exc = "IntegrityError" /\ last.msg = "uq_user_tier_rank_position")

\* Within each (user, tier) partition visual_score does not increase as
\* rank_position increases.
ScoresFollowPositions(tbl) ==
    \A a, b \in tbl :
        (a.user_id = b.user_id /\ a.tier = b.tier
            /\ PosLess(a.rank_position, b.rank_position))
           => a.visual_score >= b.visual_score

\* C30: when every create and move names neighbours that are adjacent in
\* the target partition, visual_score never increases with rank_position
\* within a (user, tier) partition, in any state reached.
C30_ScoresFollowPositions == ScoresFollowPositions(user_rankings)

====
